---- MODULE Spec2Model ----
(***************************************************************************)
(* Model of the configuration-schema migration engine of idp_common:       *)
(* idp_common/config/migration.py and the migrate-if-legacy step of        *)
(* idp_common/config/configuration_manager.py.                             *)
(*                                                                         *)
(* Python values are tagged records [t |-> tag, <tag> |-> payload], the    *)
(* payload field being named after the tag, so that values of different   *)
(* types differ in their field names and Val(x) is the payload of any x:  *)
(*   None -> "null", bool -> "bool", int -> "int", float -> "float",       *)
(*   str -> "str", list -> "list" (a sequence), dict -> "dict" (a function *)
(*   from key strings to values: dict equality ignores key order).         *)
(* An int's payload is its value; a float's payload is the decimal         *)
(* [n |-> digits, e |-> places] (0.5 is n = 5, e = 1) without trailing     *)
(* zeros, so float(1) = FloatV(1, 0) differs from the int IntV(1).         *)
(* A raised exception is the value [t |-> "error", error |-> kind].        *)
(***************************************************************************)
EXTENDS Integers, Sequences, FiniteSets, TLC

\* pc:  "start" before the call under study, "done" (or "again") after it
\* arg: the caller's argument object, as it is now
\* before: the argument as it was when the call began
\* ret: what the call returned, or the error it raised
\* pc, arg, before, ret: a call of one function, its argument before and
\*   after the call, and what it returned or raised
\* table: the DynamoDB table, the item stored under each Configuration key
\* puts: the Items of the put_item calls made since the last operation began
\* locals: the local variables of the calls that are under way
VARIABLES pc, arg, before, ret, table, puts, locals

vars == <<pc, arg, before, ret, table, puts, locals>>

\* the calls that touch no table and run alone
NoTable == table = <<>> /\ puts = <<>> /\ locals = <<>>

(***************************************************************************)
(* idp_common/config/schema_constants.py (field names and enumerations)    *)
(***************************************************************************)
SCHEMA_FIELD == "$schema"
ID_FIELD == "$id"
DEFS_FIELD == "$defs"
REF_FIELD == "$ref"
SCHEMA_TYPE == "type"
SCHEMA_PROPERTIES == "properties"
SCHEMA_ITEMS == "items"
SCHEMA_REQUIRED == "required"
SCHEMA_DESCRIPTION == "description"
SCHEMA_EXAMPLES == "examples"
TYPE_OBJECT == "object"
TYPE_ARRAY == "array"
TYPE_STRING == "string"
X_AWS_IDP_DOCUMENT_TYPE == "x-aws-idp-document-type"
X_AWS_IDP_LIST_ITEM_DESCRIPTION == "x-aws-idp-list-item-description"
X_AWS_IDP_ORIGINAL_NAME == "x-aws-idp-original-name"
X_AWS_IDP_EVALUATION_METHOD == "x-aws-idp-evaluation-method"
X_AWS_IDP_CONFIDENCE_THRESHOLD == "x-aws-idp-confidence-threshold"
X_AWS_IDP_PROMPT_OVERRIDE == "x-aws-idp-prompt-override"
X_AWS_IDP_CLASS_PROMPT == "x-aws-idp-class-prompt"
X_AWS_IDP_ATTRIBUTES_PROMPT == "x-aws-idp-attributes-prompt"
X_AWS_IDP_IMAGE_PATH == "x-aws-idp-image-path"
VALID_EVALUATION_METHODS == <<"EXACT", "NUMERIC_EXACT", "FUZZY", "SEMANTIC">>
MAX_PROMPT_OVERRIDE_LENGTH == 10000
ATTRIBUTE_TYPE_SIMPLE == "simple"
ATTRIBUTE_TYPE_GROUP == "group"
ATTRIBUTE_TYPE_LIST == "list"
LEGACY_ATTRIBUTES == "attributes"
LEGACY_NAME == "name"
LEGACY_DESCRIPTION == "description"
LEGACY_ATTRIBUTE_TYPE == "attributeType"
LEGACY_GROUP_ATTRIBUTES == "groupAttributes"
LEGACY_LIST_ITEM_TEMPLATE == "listItemTemplate"
LEGACY_ITEM_ATTRIBUTES == "itemAttributes"
LEGACY_ITEM_DESCRIPTION == "itemDescription"
LEGACY_EVALUATION_METHOD == "evaluation_method"
LEGACY_CONFIDENCE_THRESHOLD == "confidence_threshold"
LEGACY_PROMPT_OVERRIDE == "prompt_override"
LEGACY_EXAMPLES == "examples"
LEGACY_CLASS_PROMPT == "classPrompt"
LEGACY_ATTRIBUTES_PROMPT == "attributesPrompt"
LEGACY_IMAGE_PATH == "imagePath"

(***************************************************************************)
(* Python values                                                           *)
(***************************************************************************)
Null == [t |-> "null", null |-> 0]
Bool(b) == [t |-> "bool", bool |-> b]
IntV(n) == [t |-> "int", int |-> n]

\* the decimal n * 10^-e without trailing zeros
RECURSIVE Norm(_, _)
Norm(n, e) == IF e > 0 /\ n % 10 = 0 THEN Norm(n \div 10, e - 1) ELSE [n |-> n, e |-> e]

FloatV(n, e) == [t |-> "float", float |-> Norm(n, e)]
Str(s) == [t |-> "str", str |-> s]
List(q) == [t |-> "list", list |-> q]
Dict(f) == [t |-> "dict", dict |-> f]
Err(kind) == [t |-> "error", error |-> kind]

\* the payload of a value
Val(x) == x[x.t]

EmptyDict == Dict(<<>>)
EmptyList == List(<<>>)

IsErr(x) == x.t = "error"

\* x = e; F(x): a value computed once and used under a name
Bind(e, F(_)) == F(e)

\* the statements F after a call that returned r: a raise in the call ends them
Then(r, F(_)) == IF IsErr(r) THEN r ELSE F(r)

\* key in d
Has(d, k) == k \in DOMAIN Val(d)

\* d.get(k, dflt)
Get(d, k, dflt) == IF Has(d, k) THEN Val(d)[k] ELSE dflt

\* d[k] = x
Put(d, k, x) == Dict([j \in DOMAIN Val(d) \cup {k} |-> IF j = k THEN x ELSE Val(d)[j]])

\* bool(x): Python truthiness
Truthy(x) ==
    CASE x.t = "null" -> FALSE
      [] x.t = "bool" -> Val(x)
      [] x.t = "int" -> Val(x) # 0
      [] x.t = "float" -> Val(x).n # 0
      [] x.t = "str" -> Val(x) # ""
      [] x.t = "list" -> Len(Val(x)) > 0
      [] x.t = "dict" -> DOMAIN Val(x) # {}
      [] OTHER -> TRUE

(***************************************************************************)
(* migration.py: is_legacy_format                                          *)
(***************************************************************************)
RECURSIVE is_legacy_format_first_wins(_)
is_legacy_format_first_wins(data) ==
    \* the legacy marker tested before the JSON Schema markers
    IF data.t = "null" THEN FALSE
    ELSE IF data.t = "list" THEN
        IF Len(Val(data)) = 0 THEN FALSE ELSE is_legacy_format_first_wins(Val(data)[1])
    ELSE IF data.t = "dict" THEN
        IF Has(data, LEGACY_ATTRIBUTES) THEN Val(data)[LEGACY_ATTRIBUTES].t = "list"
        ELSE FALSE
    ELSE FALSE

RECURSIVE is_legacy_format_last(_)
is_legacy_format_last(data) ==
    \* a list judged by its last element instead of its first
    IF data.t = "null" THEN FALSE
    ELSE IF data.t = "list" THEN
        IF Len(Val(data)) = 0 THEN FALSE ELSE is_legacy_format_last(Val(data)[Len(Val(data))])
    ELSE IF data.t = "dict" THEN
        IF \E key \in {SCHEMA_FIELD, ID_FIELD, SCHEMA_PROPERTIES} : Has(data, key) THEN FALSE
        ELSE IF Has(data, X_AWS_IDP_DOCUMENT_TYPE) THEN FALSE
        ELSE IF Has(data, LEGACY_ATTRIBUTES) THEN Val(data)[LEGACY_ATTRIBUTES].t = "list"
        ELSE FALSE
    ELSE FALSE

RECURSIVE is_legacy_format(_)
is_legacy_format(data) ==
    IF data.t = "null" THEN FALSE
    ELSE IF data.t = "list" THEN
        IF Len(Val(data)) = 0 THEN FALSE ELSE is_legacy_format(Val(data)[1])
    ELSE IF data.t = "dict" THEN
        IF \E key \in {SCHEMA_FIELD, ID_FIELD, SCHEMA_PROPERTIES} : Has(data, key) THEN FALSE
        ELSE IF Has(data, X_AWS_IDP_DOCUMENT_TYPE) THEN FALSE
        ELSE IF Has(data, LEGACY_ATTRIBUTES) THEN Val(data)[LEGACY_ATTRIBUTES].t = "list"
        ELSE FALSE
    ELSE FALSE

(***************************************************************************)
(* Format detection: inputs and the call                                   *)
(***************************************************************************)
MaxListLen == 2

\* all sequences over S of length at most n
SeqsUpTo(S, n) == UNION {[1..k -> S] : k \in 0..n}

MarkerKeys == {SCHEMA_FIELD, ID_FIELD, SCHEMA_PROPERTIES, X_AWS_IDP_DOCUMENT_TYPE}

\* the value a marker key carries when present; presence alone decides, so
\* falsy values are used too
MarkerValue(k) ==
    CASE k = SCHEMA_FIELD -> Str("https://json-schema.org/draft/2020-12/schema")
      [] k = ID_FIELD -> Null
      [] k = SCHEMA_PROPERTIES -> EmptyDict
      [] OTHER -> Bool(FALSE)

SimpleAttrX == Dict([name |-> Str("x"), description |-> Str("d"), attributeType |-> Str("simple")])

\* what an "attributes" key may hold
AttributesValues ==
    {EmptyList, List(<<SimpleAttrX>>), EmptyDict,
     Dict([type |-> Str("object"), properties |-> EmptyDict]), Null, Str("x")}

DetectDicts ==
    {Dict([k \in ks |-> IF k \in MarkerKeys THEN MarkerValue(k) ELSE Str("n")])
        : ks \in SUBSET (MarkerKeys \cup {LEGACY_NAME})}
    \cup
    {Dict([k \in ks \cup {LEGACY_ATTRIBUTES} |->
              IF k = LEGACY_ATTRIBUTES THEN a
              ELSE IF k \in MarkerKeys THEN MarkerValue(k) ELSE Str("n")])
        : ks \in SUBSET (MarkerKeys \cup {LEGACY_NAME}), a \in AttributesValues}

DetectElems ==
    {d \in DetectDicts : Cardinality(DOMAIN Val(d)) <= 1}
    \cup {Null, Str("x"), IntV(0), EmptyList, List(<<Dict([attributes |-> EmptyList])>>)}

DetectInputs ==
    DetectDicts \cup {Null, Str("attributes"), IntV(1), Bool(TRUE)}
    \cup {List(q) : q \in SeqsUpTo(DetectElems, MaxListLen)}

InitDetect ==
    /\ NoTable
    /\ pc = "start"
    /\ arg \in DetectInputs
    /\ before = Null
    /\ ret = Null

CallIsLegacyFormat ==
    /\ UNCHANGED <<table, puts, locals>>
    /\ pc = "start"
    /\ pc' = "done"
    /\ ret' = Bool(is_legacy_format(arg))
    /\ before' = arg
    /\ UNCHANGED arg

NextDetect == CallIsLegacyFormat

SpecDetect == InitDetect /\ [][NextDetect]_vars

HasMarker(d) == \E k \in MarkerKeys : Has(d, k)

\* C3: is_legacy_format returns false for every dict holding at least one of the
\* keys $schema, $id, properties or the document-type marker, whatever else it
\* holds, also when it has an attributes key whose value is a list.
C3_MarkerWins ==
    (pc = "done" /\ arg.t = "dict" /\ HasMarker(arg)) => ret = Bool(FALSE)

C3_Witness ==
    /\ pc = "done"
    /\ arg.t = "dict"
    /\ Has(arg, ID_FIELD)
    /\ Has(arg, LEGACY_ATTRIBUTES)
    /\ Val(arg)[LEGACY_ATTRIBUTES] = List(<<SimpleAttrX>>)
    /\ ret = Bool(FALSE)

\* C4: is_legacy_format is total: false for null and the empty list; for a
\* non-empty list exactly its result on the first element; for a dict without a
\* marker key true iff attributes is present and a list; false for anything else.
C4_Total ==
    pc = "done" =>
        /\ ret.t = "bool"
        /\ arg.t = "null" => Val(ret) = FALSE
        /\ (arg.t = "list" /\ Len(Val(arg)) = 0) => Val(ret) = FALSE
        /\ (arg.t = "list" /\ Len(Val(arg)) > 0) => Val(ret) = is_legacy_format(Val(arg)[1])
        /\ (arg.t = "dict" /\ ~HasMarker(arg)) =>
              Val(ret) = (Has(arg, LEGACY_ATTRIBUTES) /\ Val(arg)[LEGACY_ATTRIBUTES].t = "list")
        /\ arg.t \notin {"null", "list", "dict"} => Val(ret) = FALSE

C4_Witness ==
    /\ pc = "done"
    /\ arg.t = "list"
    /\ Len(Val(arg)) = 2
    /\ Val(arg)[1] = Dict([attributes |-> EmptyList])
    /\ Val(arg)[2] = Dict((ID_FIELD :> Null))
    /\ ret = Bool(TRUE)

(***************************************************************************)
(* Strings and numbers: float(str), float(number), range test              *)
(***************************************************************************)
Digits == {"0", "1", "2", "3", "4", "5", "6", "7", "8", "9"}

CharAt(s, i) == SubSeq(s, i, i)

DigitVal(c) ==
    CASE c = "0" -> 0 [] c = "1" -> 1 [] c = "2" -> 2 [] c = "3" -> 3 [] c = "4" -> 4
      [] c = "5" -> 5 [] c = "6" -> 6 [] c = "7" -> 7 [] c = "8" -> 8 [] OTHER -> 9

AllDigits(s) == \A i \in 1..Len(s) : CharAt(s, i) \in Digits

\* the value of a digit string, "" being 0
RECURSIVE DigitsVal(_)
DigitsVal(s) ==
    IF Len(s) = 0 THEN 0
    ELSE 10 * DigitsVal(SubSeq(s, 1, Len(s) - 1)) + DigitVal(CharAt(s, Len(s)))

RECURSIVE Pow10(_)
Pow10(e) == IF e = 0 THEN 1 ELSE 10 * Pow10(e - 1)

\* the position of the first "." of s, or 0
DotAt(s) ==
    IF \E i \in 1..Len(s) : CharAt(s, i) = "."
    THEN CHOOSE i \in 1..Len(s) :
            CharAt(s, i) = "." /\ \A j \in 1..(i - 1) : CharAt(s, j) # "."
    ELSE 0

\* float(s) for a decimal literal [sign] digits [. digits] | [sign] . digits
\* (no exponent, inf, nan, underscore or surrounding blanks):
\* [ok |-> parsed, n, e |-> the decimal n * 10^-e]
ParseFloat(s) ==
    LET signed == Len(s) > 0 /\ CharAt(s, 1) \in {"-", "+"}
        sign == IF Len(s) > 0 /\ CharAt(s, 1) = "-" THEN -1 ELSE 1
    IN  Bind(IF signed THEN SubSeq(s, 2, Len(s)) ELSE s, LAMBDA body :
        Bind(DotAt(body), LAMBDA dot :
        Bind(IF dot = 0 THEN body ELSE SubSeq(body, 1, dot - 1), LAMBDA ip :
        Bind(IF dot = 0 THEN "" ELSE SubSeq(body, dot + 1, Len(body)), LAMBDA fp :
            IF AllDigits(ip) /\ AllDigits(fp) /\ Len(ip) + Len(fp) > 0
            THEN [ok |-> TRUE, n |-> sign * (DigitsVal(ip) * Pow10(Len(fp)) + DigitsVal(fp)),
                  e |-> Len(fp)]
            ELSE [ok |-> FALSE, n |-> 0, e |-> 0]))))

\* 0 <= d <= 1 for a decimal d
InUnitInterval(d) == 0 <= d.n /\ d.n <= Pow10(d.e)

\* x in l for a list l (compared with ==)
InList(x, l) == \E i \in 1..Len(l) : Str(l[i]) = x

ValueError(msg) == Err([exc |-> "ValueError", msg |-> msg])
AttributeError(msg) == Err([exc |-> "AttributeError", msg |-> msg])

(***************************************************************************)
(* migration.py: _validate_and_set_aws_extensions, in its three steps      *)
(***************************************************************************)
set_evaluation_method_unchecked(schema_attr, source_attr) ==
    \* the value copied without the membership test
    IF Has(source_attr, LEGACY_EVALUATION_METHOD)
    THEN Put(schema_attr, X_AWS_IDP_EVALUATION_METHOD, Val(source_attr)[LEGACY_EVALUATION_METHOD])
    ELSE schema_attr

set_evaluation_method(schema_attr, source_attr) ==
    IF Has(source_attr, LEGACY_EVALUATION_METHOD) THEN
        LET method == Val(source_attr)[LEGACY_EVALUATION_METHOD] IN
        IF ~InList(method, VALID_EVALUATION_METHODS)
        THEN ValueError("Invalid evaluation_method")
        ELSE Put(schema_attr, X_AWS_IDP_EVALUATION_METHOD, method)
    ELSE schema_attr

\* isinstance(threshold, (int, float)); bool is a subclass of int
IsNumber(x) == x.t \in {"int", "float", "bool"}

\* a number as a decimal
AsDecimal(x) ==
    CASE x.t = "int" -> [n |-> Val(x), e |-> 0]
      [] x.t = "bool" -> [n |-> IF Val(x) THEN 1 ELSE 0, e |-> 0]
      [] OTHER -> Val(x)

set_confidence_threshold_open(schema_attr, source_attr) ==
    \* the range test with strict bounds
    IF Has(source_attr, LEGACY_CONFIDENCE_THRESHOLD) THEN
        Bind(Val(source_attr)[LEGACY_CONFIDENCE_THRESHOLD], LAMBDA given :
        Bind(IF given.t = "str" THEN ParseFloat(Val(given)) ELSE [ok |-> TRUE, n |-> 0, e |-> 0],
             LAMBDA parsed :
        Bind(IF given.t = "str" THEN FloatV(parsed.n, parsed.e) ELSE given, LAMBDA threshold :
            IF ~parsed.ok THEN ValueError("Invalid confidence_threshold")
            ELSE IF ~IsNumber(threshold) THEN ValueError("confidence_threshold must be a number")
            ELSE IF ~(0 < AsDecimal(threshold).n /\ AsDecimal(threshold).n < Pow10(AsDecimal(threshold).e))
                 THEN ValueError("confidence_threshold must be between 0 and 1")
            ELSE Put(schema_attr, X_AWS_IDP_CONFIDENCE_THRESHOLD,
                     FloatV(AsDecimal(threshold).n, AsDecimal(threshold).e)))))
    ELSE schema_attr

set_confidence_threshold(schema_attr, source_attr) ==
    IF Has(source_attr, LEGACY_CONFIDENCE_THRESHOLD) THEN
        Bind(Val(source_attr)[LEGACY_CONFIDENCE_THRESHOLD], LAMBDA given :
        Bind(IF given.t = "str" THEN ParseFloat(Val(given)) ELSE [ok |-> TRUE, n |-> 0, e |-> 0],
             LAMBDA parsed :
        Bind(IF given.t = "str" THEN FloatV(parsed.n, parsed.e) ELSE given, LAMBDA threshold :
            IF ~parsed.ok THEN ValueError("Invalid confidence_threshold")
            ELSE IF ~IsNumber(threshold) THEN ValueError("confidence_threshold must be a number")
            ELSE IF ~InUnitInterval(AsDecimal(threshold))
                 THEN ValueError("confidence_threshold must be between 0 and 1")
            ELSE Put(schema_attr, X_AWS_IDP_CONFIDENCE_THRESHOLD,
                     FloatV(AsDecimal(threshold).n, AsDecimal(threshold).e)))))
    ELSE schema_attr

set_prompt_override_off_by_one(schema_attr, source_attr) ==
    \* the length test with >= instead of >
    IF Has(source_attr, LEGACY_PROMPT_OVERRIDE) THEN
        LET prompt == Val(source_attr)[LEGACY_PROMPT_OVERRIDE] IN
        IF prompt.t # "str" THEN ValueError("prompt_override must be a string")
        ELSE IF Len(Val(prompt)) >= MAX_PROMPT_OVERRIDE_LENGTH
             THEN ValueError("prompt_override is too long")
        ELSE Put(schema_attr, X_AWS_IDP_PROMPT_OVERRIDE, prompt)
    ELSE schema_attr

set_prompt_override(schema_attr, source_attr) ==
    IF Has(source_attr, LEGACY_PROMPT_OVERRIDE) THEN
        LET prompt == Val(source_attr)[LEGACY_PROMPT_OVERRIDE] IN
        IF prompt.t # "str" THEN ValueError("prompt_override must be a string")
        ELSE IF Len(Val(prompt)) > MAX_PROMPT_OVERRIDE_LENGTH
             THEN ValueError("prompt_override is too long")
        ELSE Put(schema_attr, X_AWS_IDP_PROMPT_OVERRIDE, prompt)
    ELSE schema_attr

\* the updated schema_attr, or the first error raised
validate_and_set_aws_extensions(schema_attr, source_attr) ==
    Then(set_evaluation_method(schema_attr, source_attr), LAMBDA s1 :
    Then(set_confidence_threshold(s1, source_attr), LAMBDA s2 :
         set_prompt_override(s2, source_attr)))

(***************************************************************************)
(* migration.py: the attribute migrators                                   *)
(***************************************************************************)
migrate_simple_attribute_named(attr) ==
    \* the legacy name carried into the property
    validate_and_set_aws_extensions(
        Dict((SCHEMA_TYPE :> Str(TYPE_STRING))
             @@ (SCHEMA_DESCRIPTION :> Get(attr, LEGACY_DESCRIPTION, Str("")))
             @@ (LEGACY_NAME :> Get(attr, LEGACY_NAME, Str("")))),
        attr)

migrate_simple_attribute(attr) ==
    validate_and_set_aws_extensions(
        Dict((SCHEMA_TYPE :> Str(TYPE_STRING))
             @@ (SCHEMA_DESCRIPTION :> Get(attr, LEGACY_DESCRIPTION, Str("")))),
        attr)

\* for a in attrs[i..]: props[a.get("name", "")] = _migrate_simple_attribute(a)
\* the filled properties dict, or the first error raised
RECURSIVE simple_properties_loop(_, _, _)
simple_properties_loop(attrs, i, props) ==
    IF i > Len(attrs) THEN props
    ELSE IF attrs[i].t # "dict" THEN AttributeError("object has no attribute 'get'")
    ELSE LET attr_name == Get(attrs[i], LEGACY_NAME, Str(""))
         IN  Then(migrate_simple_attribute(attrs[i]), LAMBDA migrated :
                  simple_properties_loop(attrs, i + 1, Put(props, Val(attr_name), migrated)))

migrate_group_attribute_inherit(attr) ==
    \* the extensions of the last child validated onto the group property too
    LET group_attrs == Get(attr, LEGACY_GROUP_ATTRIBUTES, EmptyList)
    IN  Then(simple_properties_loop(Val(group_attrs), 1, EmptyDict), LAMBDA properties :
        Then(validate_and_set_aws_extensions(
                Dict((SCHEMA_TYPE :> Str(TYPE_OBJECT))
                     @@ (SCHEMA_DESCRIPTION :> Get(attr, LEGACY_DESCRIPTION, Str("")))
                     @@ (SCHEMA_PROPERTIES :> properties)),
                attr), LAMBDA own :
             IF Len(Val(group_attrs)) = 0 THEN own
             ELSE validate_and_set_aws_extensions(own, Val(group_attrs)[Len(Val(group_attrs))])))

migrate_group_attribute(attr) ==
    LET group_attrs == Get(attr, LEGACY_GROUP_ATTRIBUTES, EmptyList)
    IN  Then(simple_properties_loop(Val(group_attrs), 1, EmptyDict), LAMBDA properties :
             validate_and_set_aws_extensions(
                Dict((SCHEMA_TYPE :> Str(TYPE_OBJECT))
                     @@ (SCHEMA_DESCRIPTION :> Get(attr, LEGACY_DESCRIPTION, Str("")))
                     @@ (SCHEMA_PROPERTIES :> properties)),
                attr))

migrate_list_attribute_unnamed(attr) ==
    \* the single item migrated without its original name
    Bind(Get(attr, LEGACY_LIST_ITEM_TEMPLATE, EmptyDict), LAMBDA list_item_template :
    Bind(Val(Get(list_item_template, LEGACY_ITEM_ATTRIBUTES, EmptyList)), LAMBDA item_attrs :
    Bind(Dict((SCHEMA_TYPE :> Str(TYPE_ARRAY))
              @@ (SCHEMA_DESCRIPTION :> Get(attr, LEGACY_DESCRIPTION, Str("")))), LAMBDA schema0 :
    Bind(IF Has(list_item_template, LEGACY_ITEM_DESCRIPTION)
         THEN Put(schema0, X_AWS_IDP_LIST_ITEM_DESCRIPTION,
                  Val(list_item_template)[LEGACY_ITEM_DESCRIPTION])
         ELSE schema0, LAMBDA schema1 :
    Then(IF Len(item_attrs) = 1
         THEN IF item_attrs[1].t # "dict"
              THEN AttributeError("object has no attribute 'get'")
              ELSE migrate_simple_attribute(item_attrs[1])
         ELSE Then(simple_properties_loop(item_attrs, 1, EmptyDict), LAMBDA properties :
                   Dict((SCHEMA_TYPE :> Str(TYPE_OBJECT))
                        @@ (SCHEMA_PROPERTIES :> properties))), LAMBDA items :
         validate_and_set_aws_extensions(Put(schema1, SCHEMA_ITEMS, items), attr))))))

\* del d[k], nothing done for a missing key
Without(d, k) == Dict([j \in DOMAIN Val(d) \ {k} |-> Val(d)[j]])

migrate_list_attribute_no_prompt(attr) ==
    \* the list attribute validated without its prompt_override
    Bind(Get(attr, LEGACY_LIST_ITEM_TEMPLATE, EmptyDict), LAMBDA list_item_template :
    Bind(Val(Get(list_item_template, LEGACY_ITEM_ATTRIBUTES, EmptyList)), LAMBDA item_attrs :
    Bind(Dict((SCHEMA_TYPE :> Str(TYPE_ARRAY))
              @@ (SCHEMA_DESCRIPTION :> Get(attr, LEGACY_DESCRIPTION, Str("")))), LAMBDA schema0 :
    Bind(IF Has(list_item_template, LEGACY_ITEM_DESCRIPTION)
         THEN Put(schema0, X_AWS_IDP_LIST_ITEM_DESCRIPTION,
                  Val(list_item_template)[LEGACY_ITEM_DESCRIPTION])
         ELSE schema0, LAMBDA schema1 :
    Then(IF Len(item_attrs) = 1
         THEN Then(IF item_attrs[1].t # "dict"
                   THEN AttributeError("object has no attribute 'get'")
                   ELSE migrate_simple_attribute(item_attrs[1]), LAMBDA single :
                   IF Has(item_attrs[1], LEGACY_NAME)
                   THEN Put(single, X_AWS_IDP_ORIGINAL_NAME, Val(item_attrs[1])[LEGACY_NAME])
                   ELSE single)
         ELSE Then(simple_properties_loop(item_attrs, 1, EmptyDict), LAMBDA properties :
                   Dict((SCHEMA_TYPE :> Str(TYPE_OBJECT))
                        @@ (SCHEMA_PROPERTIES :> properties))), LAMBDA items :
         validate_and_set_aws_extensions(Put(schema1, SCHEMA_ITEMS, items),
                                         Without(attr, LEGACY_PROMPT_OVERRIDE)))))))

migrate_list_attribute(attr) ==
    Bind(Get(attr, LEGACY_LIST_ITEM_TEMPLATE, EmptyDict), LAMBDA list_item_template :
    Bind(Val(Get(list_item_template, LEGACY_ITEM_ATTRIBUTES, EmptyList)), LAMBDA item_attrs :
    Bind(Dict((SCHEMA_TYPE :> Str(TYPE_ARRAY))
              @@ (SCHEMA_DESCRIPTION :> Get(attr, LEGACY_DESCRIPTION, Str("")))), LAMBDA schema0 :
    Bind(IF Has(list_item_template, LEGACY_ITEM_DESCRIPTION)
         THEN Put(schema0, X_AWS_IDP_LIST_ITEM_DESCRIPTION,
                  Val(list_item_template)[LEGACY_ITEM_DESCRIPTION])
         ELSE schema0, LAMBDA schema1 :
    Then(IF Len(item_attrs) = 1
         THEN Then(IF item_attrs[1].t # "dict"
                   THEN AttributeError("object has no attribute 'get'")
                   ELSE migrate_simple_attribute(item_attrs[1]), LAMBDA single :
                   IF Has(item_attrs[1], LEGACY_NAME)
                   THEN Put(single, X_AWS_IDP_ORIGINAL_NAME, Val(item_attrs[1])[LEGACY_NAME])
                   ELSE single)
         ELSE Then(simple_properties_loop(item_attrs, 1, EmptyDict), LAMBDA properties :
                   Dict((SCHEMA_TYPE :> Str(TYPE_OBJECT))
                        @@ (SCHEMA_PROPERTIES :> properties))), LAMBDA items :
         validate_and_set_aws_extensions(Put(schema1, SCHEMA_ITEMS, items), attr))))))

migrate_attribute_strict(attr) ==
    \* an unknown attributeType rejected instead of migrated as simple
    Bind(Get(attr, LEGACY_ATTRIBUTE_TYPE, Str(ATTRIBUTE_TYPE_SIMPLE)), LAMBDA attr_type :
        IF attr_type = Str(ATTRIBUTE_TYPE_SIMPLE) THEN migrate_simple_attribute(attr)
        ELSE IF attr_type = Str(ATTRIBUTE_TYPE_GROUP) THEN migrate_group_attribute(attr)
        ELSE IF attr_type = Str(ATTRIBUTE_TYPE_LIST) THEN migrate_list_attribute(attr)
        ELSE ValueError("Unknown attributeType"))

\* the dispatch on attributeType of migrate_legacy_to_schema
migrate_attribute(attr) ==
    Bind(Get(attr, LEGACY_ATTRIBUTE_TYPE, Str(ATTRIBUTE_TYPE_SIMPLE)), LAMBDA attr_type :
        IF attr_type = Str(ATTRIBUTE_TYPE_SIMPLE) THEN migrate_simple_attribute(attr)
        ELSE IF attr_type = Str(ATTRIBUTE_TYPE_GROUP) THEN migrate_group_attribute(attr)
        ELSE IF attr_type = Str(ATTRIBUTE_TYPE_LIST) THEN migrate_list_attribute(attr)
        ELSE migrate_simple_attribute(attr))

\* for attr in legacy_attributes[i..]: properties[attr_name] = schema_attr
RECURSIVE attributes_loop(_, _, _)
attributes_loop(attrs, i, props) ==
    IF i > Len(attrs) THEN props
    ELSE IF attrs[i].t # "dict" THEN AttributeError("object has no attribute 'get'")
    ELSE LET attr_name == Get(attrs[i], LEGACY_NAME, Str(""))
         IN  Then(migrate_attribute(attrs[i]), LAMBDA schema_attr :
                  attributes_loop(attrs, i + 1, Put(props, Val(attr_name), schema_attr)))

(***************************************************************************)
(* Extension validation: inputs and the call                               *)
(***************************************************************************)
MaxNumLen == 3

Absent == [t |-> "absent", absent |-> 0]

\* a dict of the given keys, the Absent ones left out
MkDict(f) == Dict([k \in {j \in DOMAIN f : f[j] # Absent} |-> f[k]])

RECURSIVE Join(_)
Join(q) == IF Len(q) = 0 THEN "" ELSE Head(q) \o Join(Tail(q))

RECURSIVE Rep(_, _)
Rep(c, n) ==
    IF n = 0 THEN ""
    ELSE IF n % 2 = 0 THEN LET h == Rep(c, n \div 2) IN h \o h
    ELSE c \o Rep(c, n - 1)

NumAlphabet == {"-", ".", "0", "1", "5", "a"}

ThresholdStrings ==
    {Join(q) : q \in SeqsUpTo(NumAlphabet, MaxNumLen)}
    \cup {"-0.01", "1.01", "0.50", "1.00", "0.99", "+1", "+0.5", "10", "0.05", "abc", "0,5"}

ThresholdValues ==
    {Str(x) : x \in ThresholdStrings}
    \cup {IntV(0), IntV(1), IntV(2), IntV(-1),
          FloatV(0, 0), FloatV(1, 0), FloatV(5, 1), FloatV(-1, 2), FloatV(101, 2),
          Bool(TRUE), Null, EmptyList}

MethodValues ==
    {Str(m) : m \in {"EXACT", "NUMERIC_EXACT", "FUZZY", "SEMANTIC", "LLM", "exact", "Exact", ""}}
    \cup {Null, IntV(1)}

PromptValues ==
    {Str(Rep("p", n)) : n \in {0, 1, MAX_PROMPT_OVERRIDE_LENGTH - 1,
                               MAX_PROMPT_OVERRIDE_LENGTH, MAX_PROMPT_OVERRIDE_LENGTH + 1}}
    \cup {Null, IntV(5), List(<<Str("p")>>)}

FewMethods == {Absent, Str("FUZZY"), Str("LLM")}
FewThresholds == {Absent, Str("0.5"), IntV(2)}
FewPrompts == {Absent, Str("p"), Str(Rep("p", MAX_PROMPT_OVERRIDE_LENGTH + 1))}

\* the extension values of one attribute: each dimension in full against a few
\* values of the other two
ExtensionTriples ==
    ((MethodValues \cup {Absent}) \X FewThresholds \X FewPrompts)
    \cup (FewMethods \X (ThresholdValues \cup {Absent}) \X FewPrompts)
    \cup (FewMethods \X FewThresholds \X (PromptValues \cup {Absent}))

WithExtensions(base, x) ==
    MkDict(base @@ (LEGACY_EVALUATION_METHOD :> x[1])
                @@ (LEGACY_CONFIDENCE_THRESHOLD :> x[2])
                @@ (LEGACY_PROMPT_OVERRIDE :> x[3]))

SourceAttrs ==
    {WithExtensions((LEGACY_NAME :> Str("x")) @@ (LEGACY_DESCRIPTION :> Str("d")), x)
        : x \in ExtensionTriples}

TargetSchemas ==
    {Dict((SCHEMA_TYPE :> Str(TYPE_STRING)) @@ (SCHEMA_DESCRIPTION :> Str("d"))),
     Dict((SCHEMA_TYPE :> Str(TYPE_ARRAY)) @@ (SCHEMA_DESCRIPTION :> Str(""))
          @@ (SCHEMA_ITEMS :> Dict((SCHEMA_TYPE :> Str(TYPE_OBJECT))
                                   @@ (SCHEMA_PROPERTIES :> EmptyDict))))}

InitValidate ==
    /\ NoTable
    /\ pc = "start"
    /\ arg \in [schema_attr : TargetSchemas, source_attr : SourceAttrs]
    /\ before = Null
    /\ ret = Null

CallValidateAndSetAwsExtensions ==
    /\ UNCHANGED <<table, puts, locals>>
    /\ pc = "start"
    /\ pc' = "done"
    /\ ret' = validate_and_set_aws_extensions(arg.schema_attr, arg.source_attr)
    /\ before' = arg
    /\ UNCHANGED arg

NextValidate == CallValidateAndSetAwsExtensions

SpecValidate == InitValidate /\ [][NextValidate]_vars

Raised(msgs) == IsErr(ret) /\ Val(ret).exc = "ValueError" /\ Val(ret).msg \in msgs

MethodMsgs == {"Invalid evaluation_method"}
ThresholdMsgs ==
    {"Invalid confidence_threshold", "confidence_threshold must be a number",
     "confidence_threshold must be between 0 and 1"}
PromptMsgs == {"prompt_override must be a string", "prompt_override is too long"}

\* C7: with an evaluation_method key, validation copies the value unchanged into
\* the evaluation-method extension iff it is one of EXACT, NUMERIC_EXACT, FUZZY,
\* SEMANTIC; any other value fails the call with an error.
C7_EvaluationMethod ==
    (pc = "done" /\ Has(arg.source_attr, LEGACY_EVALUATION_METHOD)) =>
        LET method == Val(arg.source_attr)[LEGACY_EVALUATION_METHOD]
            valid == method \in {Str("EXACT"), Str("NUMERIC_EXACT"), Str("FUZZY"), Str("SEMANTIC")}
        IN  /\ ~valid => Raised(MethodMsgs)
            /\ valid => ~Raised(MethodMsgs)
            /\ (valid /\ ~IsErr(ret)) =>
                  /\ Has(ret, X_AWS_IDP_EVALUATION_METHOD)
                  /\ Val(ret)[X_AWS_IDP_EVALUATION_METHOD] = method
            /\ (valid /\ ~Has(arg.source_attr, LEGACY_CONFIDENCE_THRESHOLD)
                      /\ ~Has(arg.source_attr, LEGACY_PROMPT_OVERRIDE)) => ~IsErr(ret)

C7_Witness ==
    /\ pc = "done"
    /\ Has(arg.source_attr, LEGACY_EVALUATION_METHOD)
    /\ Val(arg.source_attr)[LEGACY_EVALUATION_METHOD] = Str("NUMERIC_EXACT")
    /\ ~IsErr(ret)
    /\ Val(ret)[X_AWS_IDP_EVALUATION_METHOD] = Str("NUMERIC_EXACT")

C7_WitnessRejected ==
    /\ pc = "done"
    /\ Has(arg.source_attr, LEGACY_EVALUATION_METHOD)
    /\ Val(arg.source_attr)[LEGACY_EVALUATION_METHOD] = Str("LLM")
    /\ Raised(MethodMsgs)

\* the number a confidence_threshold stands for: a number, or a string that
\* parses to one
IsNumeric(x) == x.t \in {"int", "float"} \/ (x.t = "str" /\ ParseFloat(Val(x)).ok)
NumericValue(x) ==
    IF x.t = "str" THEN [n |-> ParseFloat(Val(x)).n, e |-> ParseFloat(Val(x)).e]
    ELSE IF x.t = "int" THEN [n |-> Val(x), e |-> 0]
    ELSE Val(x)

\* C6: a confidence_threshold that is a number, or a string that parses to one,
\* is accepted iff its value lies in [0,1]; an accepted value is stored in the
\* confidence-threshold extension as a float; a string that does not parse is
\* rejected with an error.  (An evaluation_method error is raised first, so the
\* statement is about the calls that get past it.)
C6_ConfidenceThreshold ==
    (pc = "done" /\ Has(arg.source_attr, LEGACY_CONFIDENCE_THRESHOLD) /\ ~Raised(MethodMsgs)) =>
        LET given == Val(arg.source_attr)[LEGACY_CONFIDENCE_THRESHOLD]
            value == NumericValue(given)
            inside == 0 <= value.n /\ value.n <= Pow10(value.e)
        IN  /\ IsNumeric(given) => (inside <=> ~Raised(ThresholdMsgs))
            /\ (IsNumeric(given) /\ ~IsErr(ret)) =>
                  /\ Has(ret, X_AWS_IDP_CONFIDENCE_THRESHOLD)
                  /\ Val(ret)[X_AWS_IDP_CONFIDENCE_THRESHOLD].t = "float"
                  /\ Val(Val(ret)[X_AWS_IDP_CONFIDENCE_THRESHOLD]) = Norm(value.n, value.e)
            /\ (IsNumeric(given) /\ inside /\ ~Has(arg.source_attr, LEGACY_PROMPT_OVERRIDE))
                  => ~IsErr(ret)
            /\ (given.t = "str" /\ ~ParseFloat(Val(given)).ok) => Raised(ThresholdMsgs)

C6_Witness ==
    /\ pc = "done"
    /\ Has(arg.source_attr, LEGACY_CONFIDENCE_THRESHOLD)
    /\ Val(arg.source_attr)[LEGACY_CONFIDENCE_THRESHOLD] = Str("0.5")
    /\ ~IsErr(ret)
    /\ Val(ret)[X_AWS_IDP_CONFIDENCE_THRESHOLD] = FloatV(5, 1)

\* C8: with a prompt_override key, validation fails if the value is not a string
\* or is longer than 10,000 characters; a string of at most 10,000 characters
\* (exactly 10,000 and the empty string too) is copied unchanged into the
\* prompt-override extension.  (Errors of the two earlier validations are raised
\* first, so the statement is about the calls that get past them.)
C8_PromptOverride ==
    (pc = "done" /\ Has(arg.source_attr, LEGACY_PROMPT_OVERRIDE)
                 /\ ~Raised(MethodMsgs) /\ ~Raised(ThresholdMsgs)) =>
        LET prompt == Val(arg.source_attr)[LEGACY_PROMPT_OVERRIDE]
            bad == prompt.t # "str" \/ Len(Val(prompt)) > 10000
        IN  /\ bad => Raised(PromptMsgs)
            /\ ~bad => /\ ~IsErr(ret)
                       /\ Has(ret, X_AWS_IDP_PROMPT_OVERRIDE)
                       /\ Val(ret)[X_AWS_IDP_PROMPT_OVERRIDE] = prompt

C8_Witness ==
    /\ pc = "done"
    /\ Has(arg.source_attr, LEGACY_PROMPT_OVERRIDE)
    /\ Val(arg.source_attr)[LEGACY_PROMPT_OVERRIDE].t = "str"
    /\ Len(Val(Val(arg.source_attr)[LEGACY_PROMPT_OVERRIDE])) = 10000
    /\ ~IsErr(ret)
    /\ Val(ret)[X_AWS_IDP_PROMPT_OVERRIDE] = Val(arg.source_attr)[LEGACY_PROMPT_OVERRIDE]

(***************************************************************************)
(* migration.py: _sanitize_attribute_schema, _find_referenced_classes,     *)
(* _convert_classes_to_json_schema                                         *)
(***************************************************************************)
KeyError(msg) == Err([exc |-> "KeyError", msg |-> msg])

\* s.replace(old, new) for a non-empty old: left to right, without overlap
RECURSIVE StrReplace(_, _, _)
StrReplace(s, old, new) ==
    IF Len(s) < Len(old) THEN s
    ELSE IF SubSeq(s, 1, Len(old)) = old
         THEN new \o StrReplace(SubSeq(s, Len(old) + 1, Len(s)), old, new)
    ELSE CharAt(s, 1) \o StrReplace(Tail(s), old, new)

\* the elements of a finite set in one fixed order
RECURSIVE SetToSeq(_)
SetToSeq(S) ==
    IF S = {} THEN <<>>
    ELSE LET x == CHOOSE y \in S : TRUE IN <<x>> \o SetToSeq(S \ {x})

\* the keys of a dict in iteration order.  Everything built from a walk over
\* the keys is compared as a dict or as a set of names, so one order stands
\* for all.
KeysOf(d) == SetToSeq(DOMAIN Val(d))

sanitize_attribute_schema_shallow(attribute) ==
    \* id and name removed from the attribute itself only
    IF ~Truthy(attribute) \/ attribute.t # "dict" THEN attribute
    ELSE Dict([k \in DOMAIN Val(attribute) \ {"id", "name"} |-> Val(attribute)[k]])

RECURSIVE sanitize_attribute_schema(_)
sanitize_attribute_schema(attribute) ==
    IF ~Truthy(attribute) \/ attribute.t # "dict" THEN attribute
    ELSE LET kept == DOMAIN Val(attribute) \ {"id", "name"}
         IN  Dict([k \in kept |->
                     IF k = SCHEMA_ITEMS THEN sanitize_attribute_schema(Val(attribute)[k])
                     ELSE IF k = SCHEMA_PROPERTIES
                          THEN Dict([q \in DOMAIN Val(Val(attribute)[k]) |->
                                        sanitize_attribute_schema(Val(Val(attribute)[k])[q])])
                     ELSE Val(attribute)[k]])

\* cls.get("attributes", {}).get("properties", {})
properties_of(cls) == Get(Get(cls, LEGACY_ATTRIBUTES, EmptyDict), SCHEMA_PROPERTIES, EmptyDict)

\* {attr_name: _sanitize_attribute_schema(attr_value) for ... in properties.items()}
sanitized_props(cls) ==
    Bind(Val(properties_of(cls)), LAMBDA properties :
         Dict([k \in DOMAIN properties |-> sanitize_attribute_schema(properties[k])]))

\* next((c for c in all_classes if c["name"] == ref_name), None)
RECURSIVE find_class(_, _, _)
find_class(all_classes, i, ref_name) ==
    IF i > Len(all_classes) THEN Null
    ELSE IF ~Has(all_classes[i], LEGACY_NAME) THEN KeyError(LEGACY_NAME)
    ELSE IF Val(all_classes[i])[LEGACY_NAME] = Str(ref_name) THEN all_classes[i]
    ELSE find_class(all_classes, i + 1, ref_name)

\* attr["$ref"].replace(f"#{DEFS_FIELD}/", "")
ref_name_of(ref) == StrReplace(ref, "#" \o DEFS_FIELD \o "/", "")

Walk(referenced, visited) == [t |-> "walk", referenced |-> referenced, visited |-> visited]

RECURSIVE find_referenced_classes(_, _, _)
RECURSIVE process_properties(_, _, _, _)
RECURSIVE process_attr(_, _, _)
RECURSIVE follow_ref(_, _, _)

follow_ref_any_class(ref, all_classes, st) ==
    \* a referenced class followed whether it is a document type or not
    IF ref.t # "str" THEN AttributeError("object has no attribute 'replace'")
    ELSE Bind(ref_name_of(Val(ref)), LAMBDA ref_name :
         IF ref_name \in st.visited THEN st
         ELSE Then(find_class(all_classes, 1, ref_name), LAMBDA ref_class :
              IF Truthy(ref_class)
              THEN Then(find_referenced_classes(ref_class, all_classes,
                                                st.visited \cup {ref_name}), LAMBDA sub :
                        Walk(st.referenced \o <<ref_class>> \o sub.referenced, sub.visited))
              ELSE st))

follow_ref_forgetful(ref, all_classes, st) ==
    \* visited copied for the recursive call instead of shared with it
    IF ref.t # "str" THEN AttributeError("object has no attribute 'replace'")
    ELSE Bind(ref_name_of(Val(ref)), LAMBDA ref_name :
         IF ref_name \in st.visited THEN st
         ELSE Then(find_class(all_classes, 1, ref_name), LAMBDA ref_class :
              IF Truthy(ref_class) /\ ~Truthy(Get(ref_class, X_AWS_IDP_DOCUMENT_TYPE, Null))
              THEN Then(find_referenced_classes(ref_class, all_classes,
                                                st.visited \cup {ref_name}), LAMBDA sub :
                        Walk(st.referenced \o <<ref_class>> \o sub.referenced,
                             st.visited \cup {ref_name}))
              ELSE st))

\* one "$ref" value met during the walk: st is the walk so far
follow_ref(ref, all_classes, st) ==
    IF ref.t # "str" THEN AttributeError("object has no attribute 'replace'")
    ELSE Bind(ref_name_of(Val(ref)), LAMBDA ref_name :
         IF ref_name \in st.visited THEN st
         ELSE Then(find_class(all_classes, 1, ref_name), LAMBDA ref_class :
              IF Truthy(ref_class) /\ ~Truthy(Get(ref_class, X_AWS_IDP_DOCUMENT_TYPE, Null))
              THEN Then(find_referenced_classes(ref_class, all_classes,
                                                st.visited \cup {ref_name}), LAMBDA sub :
                        Walk(st.referenced \o <<ref_class>> \o sub.referenced, sub.visited))
              ELSE st))

\* the body of the loop of process_properties
process_attr(attr, all_classes, st) ==
    Then(IF attr.t = "dict" /\ Has(attr, REF_FIELD)
         THEN follow_ref(Val(attr)[REF_FIELD], all_classes, st)
         ELSE st, LAMBDA s1 :
    Then(IF /\ attr.t = "dict"
            /\ Has(attr, SCHEMA_ITEMS)
            /\ Val(attr)[SCHEMA_ITEMS].t = "dict"
            /\ Has(Val(attr)[SCHEMA_ITEMS], REF_FIELD)
         THEN follow_ref(Val(Val(attr)[SCHEMA_ITEMS])[REF_FIELD], all_classes, s1)
         ELSE s1, LAMBDA s2 :
         IF /\ attr.t = "dict"
            /\ Get(attr, SCHEMA_TYPE, Null) = Str(TYPE_OBJECT)
            /\ Has(attr, SCHEMA_PROPERTIES)
         THEN process_properties(Val(attr)[SCHEMA_PROPERTIES],
                                 KeysOf(Val(attr)[SCHEMA_PROPERTIES]), all_classes, s2)
         ELSE s2))

\* for attr in properties.values(), over the keys still to visit
process_properties(properties, keys, all_classes, st) ==
    IF Len(keys) = 0 THEN st
    ELSE Then(process_attr(Val(properties)[Head(keys)], all_classes, st), LAMBDA s1 :
              process_properties(properties, Tail(keys), all_classes, s1))

\* the classes referenced by root_class, and the visited set it leaves
find_referenced_classes(root_class, all_classes, visited) ==
    Bind(properties_of(root_class), LAMBDA properties :
         process_properties(properties, KeysOf(properties), all_classes, Walk(<<>>, visited)))

\* the $defs entry of one referenced class
defs_entry(cls) ==
    Bind(Dict((SCHEMA_TYPE :> Str(TYPE_OBJECT)) @@ (SCHEMA_PROPERTIES :> sanitized_props(cls))),
         LAMBDA e0 :
    Bind(IF Truthy(Get(cls, LEGACY_DESCRIPTION, Null))
         THEN Put(e0, SCHEMA_DESCRIPTION, Val(cls)[LEGACY_DESCRIPTION])
         ELSE e0, LAMBDA e1 :
    Bind(Get(Get(cls, LEGACY_ATTRIBUTES, EmptyDict), SCHEMA_REQUIRED, EmptyList), LAMBDA required :
         IF Truthy(required) THEN Put(e1, SCHEMA_REQUIRED, required) ELSE e1)))

\* for cls in referenced_classes: defs[cls["name"]] = ...
RECURSIVE defs_loop(_, _, _)
defs_loop(referenced, i, defs) ==
    IF i > Len(referenced) THEN defs
    ELSE defs_loop(referenced, i + 1,
                   Put(defs, Val(Val(referenced[i])[LEGACY_NAME]), defs_entry(referenced[i])))

\* the schema of one document type class, or the error raised
build_schema(doc_type_class, classes) ==
    Then(find_referenced_classes(doc_type_class, classes, {}), LAMBDA walk :
    IF ~Has(doc_type_class, LEGACY_NAME) THEN KeyError(LEGACY_NAME)
    ELSE
    Bind(defs_loop(walk.referenced, 1, EmptyDict), LAMBDA defs :
    Bind(Dict((SCHEMA_FIELD :> Str("https://json-schema.org/draft/2020-12/schema"))
              @@ (ID_FIELD :> Val(doc_type_class)[LEGACY_NAME])
              @@ (X_AWS_IDP_DOCUMENT_TYPE :> Val(doc_type_class)[LEGACY_NAME])
              @@ (SCHEMA_TYPE :> Str(TYPE_OBJECT))
              @@ (SCHEMA_PROPERTIES :> sanitized_props(doc_type_class))), LAMBDA s0 :
    Bind(IF Truthy(Get(doc_type_class, LEGACY_DESCRIPTION, Null))
         THEN Put(s0, SCHEMA_DESCRIPTION, Val(doc_type_class)[LEGACY_DESCRIPTION])
         ELSE s0, LAMBDA s1 :
    Bind(Get(Get(doc_type_class, LEGACY_ATTRIBUTES, EmptyDict), SCHEMA_REQUIRED, EmptyList),
         LAMBDA required :
    Bind(IF Truthy(required) THEN Put(s1, SCHEMA_REQUIRED, required) ELSE s1, LAMBDA s2 :
    Bind(IF Has(doc_type_class, LEGACY_EXAMPLES) /\ Truthy(Val(doc_type_class)[LEGACY_EXAMPLES])
         THEN Put(s2, SCHEMA_EXAMPLES, Val(doc_type_class)[LEGACY_EXAMPLES])
         ELSE s2, LAMBDA s3 :
         IF Truthy(defs) THEN Put(s3, DEFS_FIELD, defs) ELSE s3)))))))

\* for doc_type_class in doc_type_classes[i..]: schemas.append(schema)
RECURSIVE schemas_loop(_, _, _, _)
schemas_loop(doc_type_classes, i, classes, schemas) ==
    IF i > Len(doc_type_classes) THEN List(schemas)
    ELSE Then(build_schema(doc_type_classes[i], classes), LAMBDA schema :
              schemas_loop(doc_type_classes, i + 1, classes, Append(schemas, schema)))

IsFlagged(cls) == Get(cls, X_AWS_IDP_DOCUMENT_TYPE, Null) = Bool(TRUE)

convert_classes_to_json_schema_first_only(classes) ==
    \* a schema for the first document type only
    IF Len(classes) = 0 THEN [result |-> EmptyList, classes |-> classes]
    ELSE Bind(SelectSeq(classes, IsFlagged), LAMBDA flagged :
         Bind(IF Len(flagged) = 0
              THEN [classes EXCEPT ![1] = Put(classes[1], X_AWS_IDP_DOCUMENT_TYPE, Bool(TRUE))]
              ELSE classes, LAMBDA marked :
         Bind(IF Len(flagged) = 0 THEN <<marked[1]>> ELSE <<flagged[1]>>, LAMBDA doc_type_classes :
              [result |-> schemas_loop(doc_type_classes, 1, marked, <<>>), classes |-> marked])))

convert_classes_to_json_schema_unmarked(classes) ==
    \* the first class taken as the document type without being marked
    IF Len(classes) = 0 THEN [result |-> EmptyList, classes |-> classes]
    ELSE Bind(SelectSeq(classes, IsFlagged), LAMBDA flagged :
         Bind(IF Len(flagged) = 0 THEN <<classes[1]>> ELSE flagged, LAMBDA doc_type_classes :
              [result |-> schemas_loop(doc_type_classes, 1, classes, <<>>), classes |-> classes]))

\* [result |-> the list of schemas or the error raised,
\*  classes |-> the caller's list as the call leaves it]
convert_classes_to_json_schema(classes) ==
    IF Len(classes) = 0 THEN [result |-> EmptyList, classes |-> classes]
    ELSE Bind(SelectSeq(classes, IsFlagged), LAMBDA flagged :
         Bind(IF Len(flagged) = 0
              THEN [classes EXCEPT ![1] = Put(classes[1], X_AWS_IDP_DOCUMENT_TYPE, Bool(TRUE))]
              ELSE classes, LAMBDA marked :
         Bind(IF Len(flagged) = 0 THEN <<marked[1]>> ELSE flagged, LAMBDA doc_type_classes :
              [result |-> schemas_loop(doc_type_classes, 1, marked, <<>>), classes |-> marked])))

(***************************************************************************)
(* json.loads and the two regular expressions of _migrate_examples         *)
(* Modelled: objects, arrays, strings with the escapes \" \\ \/ \n \t \r,  *)
(* decimal numbers without exponent, true, false, null, blanks.  Not       *)
(* modelled (and absent from the inputs): \u, \b, \f, exponents, NaN,      *)
(* Infinity.                                                               *)
(***************************************************************************)
Quote == "\""
Backslash == "\\"

JsonBlanks == {" ", "\t", "\n", "\r"}
ControlChars == {"\t", "\n", "\r", "\f"}

RECURSIVE SkipBlanks(_, _)
SkipBlanks(s, i) ==
    IF i <= Len(s) /\ CharAt(s, i) \in JsonBlanks THEN SkipBlanks(s, i + 1) ELSE i

Fail == [ok |-> FALSE, val |-> Null, pos |-> 0]
Parsed(val, pos) == [ok |-> TRUE, val |-> val, pos |-> pos]

StartsWithAt(s, i, word) ==
    i + Len(word) - 1 <= Len(s) /\ SubSeq(s, i, i + Len(word) - 1) = word

\* the rest of a string literal whose opening quote is before position i
RECURSIVE scan_string(_, _, _)
scan_string(s, i, acc) ==
    IF i > Len(s) THEN Fail
    ELSE LET c == CharAt(s, i) IN
         IF c = Quote THEN Parsed(Str(acc), i + 1)
         ELSE IF c = Backslash THEN
              IF i + 1 > Len(s) THEN Fail
              ELSE LET e == CharAt(s, i + 1) IN
                   IF e \in {Quote, Backslash, "/"} THEN scan_string(s, i + 2, acc \o e)
                   ELSE IF e = "n" THEN scan_string(s, i + 2, acc \o "\n")
                   ELSE IF e = "t" THEN scan_string(s, i + 2, acc \o "\t")
                   ELSE IF e = "r" THEN scan_string(s, i + 2, acc \o "\r")
                   ELSE Fail
         ELSE IF c \in ControlChars THEN Fail
         ELSE scan_string(s, i + 1, acc \o c)

\* the first position at or after i that holds no digit
RECURSIVE DigitsEnd(_, _)
DigitsEnd(s, i) ==
    IF i <= Len(s) /\ CharAt(s, i) \in Digits THEN DigitsEnd(s, i + 1) ELSE i

\* -?(0|[1-9][0-9]*)(\.[0-9]+)?
scan_number(s, i) ==
    Bind(CharAt(s, i) = "-", LAMBDA neg :
    Bind(IF neg THEN i + 1 ELSE i, LAMBDA j :
    Bind(IF j <= Len(s) /\ CharAt(s, j) = "0" THEN j + 1 ELSE DigitsEnd(s, j), LAMBDA intEnd :
    Bind(/\ intEnd + 1 <= Len(s)
         /\ CharAt(s, intEnd) = "."
         /\ CharAt(s, intEnd + 1) \in Digits, LAMBDA hasFrac :
    Bind(IF hasFrac THEN DigitsEnd(s, intEnd + 1) ELSE intEnd, LAMBDA fracEnd :
    Bind(DigitsVal(SubSeq(s, j, intEnd - 1)), LAMBDA ip :
    Bind(SubSeq(s, intEnd + 1, fracEnd - 1), LAMBDA fp :
    Bind(IF neg THEN -1 ELSE 1, LAMBDA sign :
        IF intEnd = j THEN Fail
        ELSE IF hasFrac
             THEN Parsed(FloatV(sign * (ip * Pow10(Len(fp)) + DigitsVal(fp)), Len(fp)), fracEnd)
        ELSE Parsed(IntV(sign * ip), intEnd)))))))))

RECURSIVE parse_value(_, _)
RECURSIVE parse_members(_, _, _)
RECURSIVE parse_elements(_, _, _)

\* the JSON value that starts at position i
parse_value(s, i) ==
    IF i > Len(s) THEN Fail
    ELSE Bind(CharAt(s, i), LAMBDA c :
         IF c = Quote THEN scan_string(s, i + 1, "")
         ELSE IF c = "{" THEN
              Bind(SkipBlanks(s, i + 1), LAMBDA j :
                   IF j <= Len(s) /\ CharAt(s, j) = "}" THEN Parsed(EmptyDict, j + 1)
                   ELSE parse_members(s, j, EmptyDict))
         ELSE IF c = "[" THEN
              Bind(SkipBlanks(s, i + 1), LAMBDA j :
                   IF j <= Len(s) /\ CharAt(s, j) = "]" THEN Parsed(EmptyList, j + 1)
                   ELSE parse_elements(s, j, <<>>))
         ELSE IF StartsWithAt(s, i, "null") THEN Parsed(Null, i + 4)
         ELSE IF StartsWithAt(s, i, "true") THEN Parsed(Bool(TRUE), i + 4)
         ELSE IF StartsWithAt(s, i, "false") THEN Parsed(Bool(FALSE), i + 5)
         ELSE IF c = "-" \/ c \in Digits THEN scan_number(s, i)
         ELSE Fail)

\* "key" : value (, "key" : value)* } with the key's quote expected at i;
\* a repeated key keeps its last value
parse_members(s, i, acc) ==
    IF i > Len(s) \/ CharAt(s, i) # Quote THEN Fail
    ELSE Bind(scan_string(s, i + 1, ""), LAMBDA key :
         IF ~key.ok THEN Fail
         ELSE Bind(SkipBlanks(s, key.pos), LAMBDA colon :
              IF colon > Len(s) \/ CharAt(s, colon) # ":" THEN Fail
              ELSE Bind(parse_value(s, SkipBlanks(s, colon + 1)), LAMBDA val :
                   IF ~val.ok THEN Fail
                   ELSE Bind(SkipBlanks(s, val.pos), LAMBDA next :
                        Bind(Put(acc, Val(key.val), val.val), LAMBDA acc1 :
                             IF next > Len(s) THEN Fail
                             ELSE IF CharAt(s, next) = "}" THEN Parsed(acc1, next + 1)
                             ELSE IF CharAt(s, next) = ","
                                  THEN parse_members(s, SkipBlanks(s, next + 1), acc1)
                             ELSE Fail)))))

\* value (, value)* ] with the first value expected at i
parse_elements(s, i, acc) ==
    Bind(parse_value(s, i), LAMBDA val :
    IF ~val.ok THEN Fail
    ELSE Bind(SkipBlanks(s, val.pos), LAMBDA next :
         Bind(Append(acc, val.val), LAMBDA acc1 :
              IF next > Len(s) THEN Fail
              ELSE IF CharAt(s, next) = "]" THEN Parsed(List(acc1), next + 1)
              ELSE IF CharAt(s, next) = ","
                   THEN parse_elements(s, SkipBlanks(s, next + 1), acc1)
              ELSE Fail)))

\* json.loads(s): [ok |-> FALSE] stands for JSONDecodeError
json_loads(s) ==
    Bind(parse_value(s, SkipBlanks(s, 1)), LAMBDA r :
         IF r.ok /\ SkipBlanks(s, r.pos) > Len(s) THEN r ELSE Fail)

\* the positions of s that hold c
Positions(s, c) == {i \in 1..Len(s) : CharAt(s, i) = c}
Min(S) == CHOOSE x \in S : \A y \in S : x <= y
Max(S) == CHOOSE x \in S : \A y \in S : x >= y

search_json_block_lazy(prompt) ==
    \* r'\{.*?\}': the span from the first "{" to the first "}" after it
    Bind(Positions(prompt, "{"), LAMBDA opens :
    Bind(Positions(prompt, "}"), LAMBDA closes :
        IF opens # {} /\ closes # {} /\ Max(closes) > Min(opens)
        THEN [ok |-> TRUE,
              group |-> SubSeq(prompt, Min(opens), Min({c \in closes : c > Min(opens)}))]
        ELSE [ok |-> FALSE, group |-> ""]))

\* re.search(r'\{.*\}', prompt, re.DOTALL): the span from the first "{" to the
\* last "}" after it, [ok |-> FALSE] standing for no match
search_json_block(prompt) ==
    Bind(Positions(prompt, "{"), LAMBDA opens :
    Bind(Positions(prompt, "}"), LAMBDA closes :
        IF opens # {} /\ closes # {} /\ Max(closes) > Min(opens)
        THEN [ok |-> TRUE, group |-> SubSeq(prompt, Min(opens), Max(closes))]
        ELSE [ok |-> FALSE, group |-> ""]))

RegexBlanks == {" ", "\t", "\n", "\r", "\f"}

WordChars ==
    Digits \cup {"_"} \cup
    {"a", "b", "c", "d", "e", "f", "g", "h", "i", "j", "k", "l", "m",
     "n", "o", "p", "q", "r", "s", "t", "u", "v", "w", "x", "y", "z",
     "A", "B", "C", "D", "E", "F", "G", "H", "I", "J", "K", "L", "M",
     "N", "O", "P", "Q", "R", "S", "T", "U", "V", "W", "X", "Y", "Z"}

RECURSIVE SkipRegexBlanks(_, _)
SkipRegexBlanks(s, i) ==
    IF i <= Len(s) /\ CharAt(s, i) \in RegexBlanks THEN SkipRegexBlanks(s, i + 1) ELSE i

\* "(?:[^"\\]|\\.)*" with the opening quote before position i: the position
\* after the closing quote, or 0
RECURSIVE literal_end(_, _)
literal_end(s, i) ==
    IF i > Len(s) THEN 0
    ELSE LET c == CharAt(s, i) IN
         IF c = Quote THEN i + 1
         ELSE IF c = Backslash
              THEN IF i + 1 > Len(s) \/ CharAt(s, i + 1) = "\n" THEN 0
                   ELSE literal_end(s, i + 2)
         ELSE literal_end(s, i + 1)

\* "([^"]+)":\s*("(?:[^"\\]|\\.)*"|\bnull\b) tried at position i
match_pair(s, i) ==
    LET nomatch == [ok |-> FALSE, k |-> "", lit |-> "", pos |-> 0] IN
    Bind({j \in Positions(s, Quote) : j > i}, LAMBDA later :
    Bind(IF later = {} THEN 0 ELSE Min(later), LAMBDA keyEnd :
    Bind(SkipRegexBlanks(s, keyEnd + 2), LAMBDA valAt :
    Bind(literal_end(s, valAt + 1), LAMBDA litEnd :
        IF CharAt(s, i) # Quote \/ keyEnd <= i + 1 THEN nomatch
        ELSE IF keyEnd + 1 > Len(s) \/ CharAt(s, keyEnd + 1) # ":" THEN nomatch
        ELSE IF valAt <= Len(s) /\ CharAt(s, valAt) = Quote
             THEN IF litEnd = 0 THEN nomatch
                  ELSE [ok |-> TRUE, k |-> SubSeq(s, i + 1, keyEnd - 1),
                        lit |-> SubSeq(s, valAt, litEnd - 1), pos |-> litEnd]
        ELSE IF /\ StartsWithAt(s, valAt, "null")
                /\ (valAt + 4 > Len(s) \/ CharAt(s, valAt + 4) \notin WordChars)
             THEN [ok |-> TRUE, k |-> SubSeq(s, i + 1, keyEnd - 1), lit |-> "null", pos |-> valAt + 4]
        ELSE nomatch))))

\* re.findall of that pattern from position i on: the (key, value) texts
RECURSIVE findall_pairs(_, _)
findall_pairs(s, i) ==
    IF i > Len(s) THEN <<>>
    ELSE Bind(match_pair(s, i), LAMBDA m :
         IF m.ok THEN <<[k |-> m.k, lit |-> m.lit]>> \o findall_pairs(s, m.pos)
         ELSE findall_pairs(s, i + 1))

\* '{' + ', '.join([f'"{k}": {v}' for k, v in pairs]) + '}'
RECURSIVE join_pairs(_, _)
join_pairs(pairs, i) ==
    IF i > Len(pairs) THEN ""
    ELSE (IF i > 1 THEN ", " ELSE "")
         \o Quote \o pairs[i].k \o Quote \o ": " \o pairs[i].lit
         \o join_pairs(pairs, i + 1)

Merge_new_keys(target, values) ==
    \* only the keys that target does not hold yet are written
    Dict([k \in DOMAIN Val(target) \cup DOMAIN Val(values) |->
            IF k \in DOMAIN Val(target) THEN Val(target)[k] ELSE Val(values)[k]])

\* for key, value in example_values.items(): migrated_example[key] = value
Merge(target, values) ==
    Dict([k \in DOMAIN Val(target) \cup DOMAIN Val(values) |->
            IF k \in DOMAIN Val(values) THEN Val(values)[k] ELSE Val(target)[k]])

(***************************************************************************)
(* migration.py: _migrate_examples                                         *)
(***************************************************************************)
extract_values_placeholder(migrated_example, prompt) ==
    \* a prompt that gives no values leaves a placeholder key
    IF prompt.t # "str" THEN migrated_example
    ELSE Bind(search_json_block(Val(prompt)), LAMBDA json_match :
         Bind(IF json_match.ok THEN json_loads(json_match.group) ELSE Fail, LAMBDA block :
         Bind(findall_pairs(Val(prompt), 1), LAMBDA pairs :
         Bind(json_loads("{" \o join_pairs(pairs, 1) \o "}"), LAMBDA rebuilt :
              IF block.ok /\ block.val.t = "dict" THEN Merge(migrated_example, block.val)
              ELSE IF Len(pairs) > 0 /\ rebuilt.ok THEN Merge(migrated_example, rebuilt.val)
              ELSE Put(migrated_example, "value", Null)))))

\* the keys extracted from the attributes prompt, merged into migrated_example
extract_values(migrated_example, prompt) ==
    IF prompt.t # "str" THEN migrated_example  \* re.search raises, caught by except Exception
    ELSE Bind(search_json_block(Val(prompt)), LAMBDA json_match :
         Bind(IF json_match.ok THEN json_loads(json_match.group) ELSE Fail, LAMBDA block :
         Bind(findall_pairs(Val(prompt), 1), LAMBDA pairs :
         Bind(json_loads("{" \o join_pairs(pairs, 1) \o "}"), LAMBDA rebuilt :
              IF block.ok /\ block.val.t = "dict" THEN Merge(migrated_example, block.val)
              ELSE IF Len(pairs) > 0 /\ rebuilt.ok THEN Merge(migrated_example, rebuilt.val)
              ELSE migrated_example))))

migrate_example(example) ==
    Bind(IF Has(example, LEGACY_NAME)
         THEN Put(EmptyDict, LEGACY_NAME, Val(example)[LEGACY_NAME]) ELSE EmptyDict, LAMBDA m1 :
    Bind(IF Has(example, LEGACY_CLASS_PROMPT)
         THEN Put(m1, X_AWS_IDP_CLASS_PROMPT, Val(example)[LEGACY_CLASS_PROMPT]) ELSE m1, LAMBDA m2 :
    Bind(IF Has(example, LEGACY_ATTRIBUTES_PROMPT)
         THEN Put(m2, X_AWS_IDP_ATTRIBUTES_PROMPT, Val(example)[LEGACY_ATTRIBUTES_PROMPT]) ELSE m2,
         LAMBDA m3 :
    Bind(IF Has(example, LEGACY_IMAGE_PATH)
         THEN Put(m3, X_AWS_IDP_IMAGE_PATH, Val(example)[LEGACY_IMAGE_PATH]) ELSE m3, LAMBDA m4 :
        IF Has(example, LEGACY_ATTRIBUTES_PROMPT)
        THEN extract_values(m4, Val(example)[LEGACY_ATTRIBUTES_PROMPT])
        ELSE m4))))

RECURSIVE examples_loop_keep_empty(_, _, _)
examples_loop_keep_empty(legacy_examples, i, migrated_examples) ==
    \* every migrated example appended, the empty ones too
    IF i > Len(legacy_examples) THEN List(migrated_examples)
    ELSE Bind(migrate_example(legacy_examples[i]), LAMBDA migrated_example :
              examples_loop_keep_empty(legacy_examples, i + 1,
                                       Append(migrated_examples, migrated_example)))

\* for example in legacy_examples[i..]: append the migrated example if not empty
RECURSIVE examples_loop(_, _, _)
examples_loop(legacy_examples, i, migrated_examples) ==
    IF i > Len(legacy_examples) THEN List(migrated_examples)
    ELSE Bind(migrate_example(legacy_examples[i]), LAMBDA migrated_example :
              examples_loop(legacy_examples, i + 1,
                            IF Truthy(migrated_example)
                            THEN Append(migrated_examples, migrated_example)
                            ELSE migrated_examples))

migrate_examples(legacy_examples) ==
    IF ~Truthy(legacy_examples) THEN EmptyList
    ELSE examples_loop(Val(legacy_examples), 1, <<>>)

(***************************************************************************)
(* migration.py: migrate_legacy_to_schema                                  *)
(* configuration_manager.py: the migrate-if-legacy step                    *)
(***************************************************************************)
\* what "for x in obj" yields: the elements of a list, the keys of a dict
Iter(obj) ==
    CASE obj.t = "list" -> Val(obj)
      [] obj.t = "dict" -> Bind(KeysOf(obj), LAMBDA keys : [i \in 1..Len(keys) |-> Str(keys[i])])

\* the body of the loop over legacy_classes: the migrated class, or the error
migrate_class(class_config) ==
    IF class_config.t # "dict" THEN AttributeError("object has no attribute 'get'")
    ELSE Bind(Dict((LEGACY_NAME :> Get(class_config, LEGACY_NAME, Str("")))
                   @@ (LEGACY_DESCRIPTION :> Get(class_config, LEGACY_DESCRIPTION, Str("")))
                   @@ (X_AWS_IDP_DOCUMENT_TYPE :> Bool(TRUE))), LAMBDA m0 :
         Bind(IF Has(class_config, LEGACY_EXAMPLES)
              THEN Put(m0, LEGACY_EXAMPLES, migrate_examples(Val(class_config)[LEGACY_EXAMPLES]))
              ELSE m0, LAMBDA m1 :
         Bind(Get(class_config, LEGACY_ATTRIBUTES, EmptyList), LAMBDA legacy_attributes :
         Then(attributes_loop(Iter(legacy_attributes), 1, EmptyDict), LAMBDA properties :
              Put(m1, LEGACY_ATTRIBUTES,
                  Dict((SCHEMA_TYPE :> Str(TYPE_OBJECT))
                       @@ (SCHEMA_PROPERTIES :> properties)
                       @@ (SCHEMA_REQUIRED :> EmptyList)))))))

RECURSIVE classes_loop_skip_invalid(_, _, _)
classes_loop_skip_invalid(legacy_classes, i, migrated_classes) ==
    \* a class that fails to migrate is left out and the loop goes on
    IF i > Len(legacy_classes) THEN List(migrated_classes)
    ELSE Bind(migrate_class(legacy_classes[i]), LAMBDA migrated_class :
              classes_loop_skip_invalid(legacy_classes, i + 1,
                                        IF IsErr(migrated_class) THEN migrated_classes
                                        ELSE Append(migrated_classes, migrated_class)))

\* for class_config in legacy_classes[i..]: migrated_classes.append(migrated_class)
RECURSIVE classes_loop(_, _, _)
classes_loop(legacy_classes, i, migrated_classes) ==
    IF i > Len(legacy_classes) THEN List(migrated_classes)
    ELSE Then(migrate_class(legacy_classes[i]), LAMBDA migrated_class :
              classes_loop(legacy_classes, i + 1, Append(migrated_classes, migrated_class)))

migrate_legacy_to_schema_passthrough(legacy_classes) ==
    \* the input handed back instead of the assembled schemas
    Then(classes_loop(Iter(legacy_classes), 1, <<>>), LAMBDA migrated_classes : legacy_classes)

\* the list of schemas, or the error raised
migrate_legacy_to_schema(legacy_classes) ==
    Then(classes_loop(Iter(legacy_classes), 1, <<>>), LAMBDA migrated_classes :
         convert_classes_to_json_schema(Val(migrated_classes)).result)

migrate_legacy_to_schema_in_place(legacy_classes) ==
    \* migrated_class = class_config: the caller's dicts rewritten in place
    Bind(Iter(legacy_classes), LAMBDA objects :
    Bind(classes_loop(objects, 1, <<>>), LAMBDA migrated_classes :
         IF IsErr(migrated_classes) THEN objects
         ELSE convert_classes_to_json_schema(Val(migrated_classes)).classes))

\* The objects the call leaves behind.  The loop reads each class_config and
\* writes into a new dict migrated_class = {...}; the assembly is handed the
\* list of the new dicts and sets its flag on one of those.  The objects are
\* numbered: first the ones the loop went over, then the new ones.
migrate_legacy_to_schema_objects(legacy_classes) ==
    Bind(Iter(legacy_classes), LAMBDA objects :
    Bind(classes_loop(objects, 1, <<>>), LAMBDA migrated_classes :
         IF IsErr(migrated_classes) THEN objects
         ELSE objects \o convert_classes_to_json_schema(Val(migrated_classes)).classes))

\* the caller's list after the call
migrate_legacy_to_schema_leaves(legacy_classes) ==
    IF legacy_classes.t # "list" THEN legacy_classes
    ELSE List(SubSeq(migrate_legacy_to_schema_objects(legacy_classes),
                     1, Len(Val(legacy_classes))))

migrate_if_legacy_unguarded(classes) ==
    \* migration applied without the format test
    IF Truthy(classes) THEN migrate_legacy_to_schema(classes) ELSE classes

\* get_configuration / update_configuration:
\*   if config.get('classes') and is_legacy_format(config['classes']):
\*       config['classes'] = migrate_legacy_to_schema(config['classes'])
\* the value of config['classes'] afterwards, or the error raised
migrate_if_legacy(classes) ==
    IF Truthy(classes) /\ is_legacy_format(classes)
    THEN migrate_legacy_to_schema(classes)
    ELSE classes

(***************************************************************************)
(* Assembly: inputs and the call                                           *)
(***************************************************************************)
MaxClasses == 3

ClassNames == <<"A", "B", "C", "D", "E", "F">>
NamesInUse == {ClassNames[i] : i \in 1..MaxClasses}
MissingName == "Z"

\* a reference as the claim writes it, and as the code's strip expects it
RefPrefixes == {"#/" \o DEFS_FIELD \o "/", "#" \o DEFS_FIELD \o "/"}

RefTo(prefix, name) == Str(prefix \o name)

\* the three places the walk looks for a reference
RefForms == {"direct", "items", "nested"}

RefProperty(form, prefix, name) ==
    CASE form = "direct" -> Dict((REF_FIELD :> RefTo(prefix, name)))
      [] form = "items" ->
            Dict((SCHEMA_TYPE :> Str(TYPE_ARRAY))
                 @@ (SCHEMA_ITEMS :> Dict((REF_FIELD :> RefTo(prefix, name)))))
      [] OTHER ->
            Dict((SCHEMA_TYPE :> Str(TYPE_OBJECT))
                 @@ (SCHEMA_PROPERTIES :>
                        Dict(("inner" :> Dict((REF_FIELD :> RefTo(prefix, name)))))))

\* a property that is no reference: an object with id and name on itself,
\* on a nested property called "name", on a list, on the list's items and on
\* a property of the items called "id"
PlainProperty ==
    Dict((SCHEMA_TYPE :> Str(TYPE_OBJECT)) @@ (SCHEMA_DESCRIPTION :> Str("d"))
         @@ ("id" :> Str("7")) @@ ("name" :> Str("p"))
         @@ (SCHEMA_PROPERTIES :> Dict(
                ("name" :> Dict((SCHEMA_TYPE :> Str(TYPE_STRING)) @@ ("id" :> Str("8"))
                                @@ ("name" :> Str("inner"))
                                @@ (X_AWS_IDP_ORIGINAL_NAME :> Str("inner"))))
                @@ ("rows" :> Dict((SCHEMA_TYPE :> Str(TYPE_ARRAY)) @@ ("name" :> Str("rows"))
                                   @@ (SCHEMA_ITEMS :> Dict(
                                          (SCHEMA_TYPE :> Str(TYPE_OBJECT)) @@ ("id" :> Str("9"))
                                          @@ (SCHEMA_PROPERTIES :> Dict(
                                                 ("id" :> Dict((SCHEMA_TYPE :> Str(TYPE_STRING))
                                                               @@ ("name" :> Str("cell")))))))))))))

\* what the one property of a class is: none, a plain string, or a reference
\* to a class that is missing, to the next class of the list, or to the first
Targets == {"none", "plain", "missing", "next", "first"}

ClassCfgs == [flag : BOOLEAN, target : Targets]

TargetName(i, target) ==
    CASE target = "missing" -> MissingName
      [] target = "next" -> ClassNames[i + 1]
      [] target = "first" -> ClassNames[1]

MkClass(i, form, prefix, cfg) ==
    LET name == ClassNames[i]
        properties ==
            IF cfg.target = "none" THEN EmptyDict
            ELSE IF cfg.target = "plain" THEN Dict(("p" :> PlainProperty))
            ELSE Dict(("p" :> RefProperty(form, prefix, TargetName(i, cfg.target))))
        base == (LEGACY_NAME :> Str(name))
                @@ (LEGACY_DESCRIPTION :> Str(IF name = "A" THEN "" ELSE "about " \o name))
                @@ (LEGACY_ATTRIBUTES :>
                        Dict((SCHEMA_TYPE :> Str(TYPE_OBJECT))
                             @@ (SCHEMA_PROPERTIES :> properties)
                             @@ (SCHEMA_REQUIRED :> IF name = "B" THEN List(<<Str("p")>>) ELSE EmptyList)))
    IN  Dict(IF cfg.flag THEN base @@ (X_AWS_IDP_DOCUMENT_TYPE :> Bool(TRUE)) ELSE base)

AssembleInputs ==
    {List([i \in 1..Len(cfgs) |-> MkClass(i, form, prefix, cfgs[i])])
        : form \in RefForms, prefix \in RefPrefixes, cfgs \in SeqsUpTo(ClassCfgs, MaxClasses)}

InitAssemble ==
    /\ NoTable
    /\ pc = "start"
    /\ arg \in AssembleInputs
    /\ before = Null
    /\ ret = Null

CallConvertClassesToJsonSchema ==
    /\ UNCHANGED <<table, puts, locals>>
    /\ pc = "start"
    /\ pc' = "done"
    /\ before' = arg
    /\ ret' = convert_classes_to_json_schema(Val(arg)).result
    /\ arg' = List(convert_classes_to_json_schema(Val(arg)).classes)

NextAssemble == CallConvertClassesToJsonSchema

SpecAssemble == InitAssemble /\ [][NextAssemble]_vars

\* the property p of class number i of the call's input carries the reference ref
Carries(i, ref) ==
    /\ Has(properties_of(Val(before)[i]), "p")
    /\ \E form \in RefForms, prefix \in RefPrefixes, name \in NamesInUse :
            /\ prefix \o name = ref
            /\ Val(properties_of(Val(before)[i]))["p"] = RefProperty(form, prefix, name)

\* A is the only document type, A refers to B and B refers to C
ChainABC ==
    /\ pc = "done"
    /\ Len(Val(before)) = 3
    /\ IsFlagged(Val(before)[1]) /\ ~IsFlagged(Val(before)[2]) /\ ~IsFlagged(Val(before)[3])
    /\ Carries(1, "#/$defs/B")
    /\ Carries(2, "#/$defs/C")

\* C5: reference hoisting: with A the only document type, a property of A
\* carrying $ref '#/$defs/B' and a property of B carrying $ref '#/$defs/C',
\* assembling [A, B, C] yields exactly one SchemaDocument, for A, whose $defs
\* has an entry for B and an entry for C.
C5_ReferenceHoisting ==
    ChainABC =>
        /\ ret.t = "list"
        /\ Len(Val(ret)) = 1
        /\ Val(Val(ret)[1])[ID_FIELD] = Str("A")
        /\ Has(Val(ret)[1], DEFS_FIELD)
        /\ {"B", "C"} \subseteq DOMAIN Val(Val(Val(ret)[1])[DEFS_FIELD])

(***************************************************************************)
(* Migration: inputs and the calls                                         *)
(***************************************************************************)
MaxLegacyClasses == 2
MaxSubAttrs == 2

\* attributes as they occur inside groupAttributes and itemAttributes
SubAttrs ==
    {EmptyDict,
     Dict((LEGACY_NAME :> Str("x")) @@ (LEGACY_DESCRIPTION :> Str("dx"))),
     Dict((LEGACY_NAME :> Str("y")) @@ (LEGACY_EVALUATION_METHOD :> Str("FUZZY"))),
     Dict((LEGACY_NAME :> Str("z")) @@ (LEGACY_CONFIDENCE_THRESHOLD :> Str("2")))}

SubAttrLists == {List(q) : q \in SeqsUpTo(SubAttrs, MaxSubAttrs)}

ItemTemplates ==
    {MkDict((LEGACY_ITEM_DESCRIPTION :> d) @@ (LEGACY_ITEM_ATTRIBUTES :> a))
        : d \in {Absent, Str("each")}, a \in {Absent} \cup SubAttrLists}

\* what an attribute holds under groupAttributes and under listItemTemplate
Nestings ==
    {[group |-> g, template |-> Absent] : g \in {Absent} \cup SubAttrLists}
    \cup {[group |-> Absent, template |-> tpl] : tpl \in ItemTemplates}

AttributeTypes ==
    {Absent, Str(ATTRIBUTE_TYPE_SIMPLE), Str(ATTRIBUTE_TYPE_GROUP),
     Str(ATTRIBUTE_TYPE_LIST), Str("table")}

\* name and description of an attribute
Headings == {<<Absent, Absent>>, <<Str("a"), Absent>>, <<Str("a"), Str("d")>>}

\* evaluation_method, confidence_threshold, prompt_override of an attribute
ExtensionChoices ==
    {<<Absent, Absent, Absent>>,
     <<Str("EXACT"), Str("0.5"), Str("p")>>,
     <<Str("LLM"), Absent, Absent>>,
     <<Absent, IntV(2), Absent>>,
     <<Absent, FloatV(1, 0), Absent>>,
     <<Absent, Absent, IntV(5)>>}

MkAttribute(h, ty, n, x) ==
    WithExtensions((LEGACY_NAME :> h[1]) @@ (LEGACY_DESCRIPTION :> h[2])
                   @@ (LEGACY_ATTRIBUTE_TYPE :> ty)
                   @@ (LEGACY_GROUP_ATTRIBUTES :> n.group)
                   @@ (LEGACY_LIST_ITEM_TEMPLATE :> n.template), x)

LegacyAttributes ==
    {MkAttribute(h, ty, n, x)
        : h \in Headings, ty \in AttributeTypes, n \in Nestings, x \in ExtensionChoices}

ExampleFull ==
    Dict((LEGACY_NAME :> Str("Ex1")) @@ (LEGACY_CLASS_PROMPT :> Str("an example"))
         @@ (LEGACY_ATTRIBUTES_PROMPT :> Str("Expected: { \"foo\": \"bar\", \"count\": 3 } end"))
         @@ (LEGACY_IMAGE_PATH :> Str("img/ex1.jpg")))

ExamplePairs ==
    Dict((LEGACY_NAME :> Str("Ex2"))
         @@ (LEGACY_ATTRIBUTES_PROMPT :> Str("\"sender\": \"Will\",\n \"cc\": null")))

ExampleProse == Dict((LEGACY_ATTRIBUTES_PROMPT :> Str("no values here")))

\* a few whole classes, met alone and in lists
FewClasses ==
    {EmptyDict,
     MkDict((LEGACY_NAME :> Str("E"))),
     MkDict((LEGACY_NAME :> Str("A")) @@ (LEGACY_DESCRIPTION :> Str("about A"))
                   @@ (LEGACY_ATTRIBUTES :> List(<<
                         MkAttribute(<<Str("a"), Str("d")>>, Str(ATTRIBUTE_TYPE_SIMPLE),
                                     [group |-> Absent, template |-> Absent],
                                     <<Absent, Absent, Absent>>)>>))),
     MkDict((LEGACY_NAME :> Str("B")) @@ (LEGACY_ATTRIBUTES :> EmptyList)
                   @@ (LEGACY_EXAMPLES :> List(<<ExampleFull>>))),
     MkDict((LEGACY_NAME :> Str("A")) @@ (LEGACY_EXAMPLES :> EmptyList)
                   @@ (LEGACY_ATTRIBUTES :> List(<<
                         MkAttribute(<<Str("g"), Absent>>, Str(ATTRIBUTE_TYPE_GROUP),
                                     [group |-> List(<<Dict((LEGACY_NAME :> Str("x")))>>),
                                      template |-> Absent],
                                     <<Str("EXACT"), Str("0.5"), Str("p")>>),
                         MkAttribute(<<Str("g"), Str("d")>>, Absent,
                                     [group |-> Absent, template |-> Absent],
                                     <<Absent, Absent, Absent>>)>>))),
     MkDict((LEGACY_NAME :> Str("F")) @@ (LEGACY_EXAMPLES :> List(<<EmptyDict, EmptyDict>>))),
     MkDict((LEGACY_NAME :> Str("G"))
                   @@ (LEGACY_ATTRIBUTES :> List(<<
                         MkAttribute(<<Str("l"), Str("d")>>, Str(ATTRIBUTE_TYPE_LIST),
                                     [group |-> Absent,
                                      template |-> Dict((LEGACY_ITEM_ATTRIBUTES :> List(<<
                                          Dict((LEGACY_NAME :> Str("x"))),
                                          Dict((LEGACY_NAME :> Str("y"))
                                               @@ (LEGACY_EVALUATION_METHOD :> Str("LLM")))>>))) ],
                                     <<Absent, Absent, Absent>>)>>))),
     MkDict((LEGACY_NAME :> Str("C"))
                   @@ (LEGACY_ATTRIBUTES :> List(<<
                         MkAttribute(<<Str("a"), Str("d")>>, Str(ATTRIBUTE_TYPE_SIMPLE),
                                     [group |-> Absent, template |-> Absent],
                                     <<Str("LLM"), Absent, Absent>>)>>))),
     MkDict((LEGACY_NAME :> Str("D")) @@ (LEGACY_DESCRIPTION :> Str(""))
                   @@ (LEGACY_EXAMPLES :> List(<<ExamplePairs, EmptyDict, ExampleProse>>))
                   @@ (LEGACY_ATTRIBUTES :> List(<<
                         MkAttribute(<<Str("l"), Str("d")>>, Str(ATTRIBUTE_TYPE_LIST),
                                     [group |-> Absent,
                                      template |-> Dict((LEGACY_ITEM_ATTRIBUTES :>
                                                    List(<<Dict((LEGACY_NAME :> Str("x")))>>))) ],
                                     <<Absent, Absent, Absent>>)>>)))}

ClassLists == {List(q) : q \in SeqsUpTo(FewClasses, MaxLegacyClasses)}

\* one class holding one attribute, the attribute in every shape
SingleAttributeLists ==
    {List(<<MkDict((LEGACY_NAME :> h[1]) @@ (LEGACY_DESCRIPTION :> h[2])
                          @@ (LEGACY_ATTRIBUTES :> List(<<a>>)))>>)
        : h \in {<<Absent, Absent>>, <<Str("A"), Str("about A")>>}, a \in LegacyAttributes}

\* lists of classes, and single classes handed over without a list
MigrateInputs == ClassLists \cup SingleAttributeLists \cup FewClasses

InitMigrate ==
    /\ NoTable
    /\ pc = "start"
    /\ arg \in MigrateInputs
    /\ before = Null
    /\ ret = Null

CallMigrateLegacyToSchema ==
    /\ UNCHANGED <<table, puts, locals>>
    /\ pc = "start"
    /\ pc' = "done"
    /\ before' = arg
    /\ ret' = migrate_legacy_to_schema(arg)
    /\ arg' = migrate_legacy_to_schema_leaves(arg)

NextMigrate == CallMigrateLegacyToSchema

SpecMigrate == InitMigrate /\ [][NextMigrate]_vars

\* C1: for every list of legacy classes on which migrate_legacy_to_schema
\* returns, is_legacy_format of the returned list is false; the empty input
\* returns the empty list, which is not legacy either.
C1_OutputNotLegacy ==
    (pc = "done" /\ before.t = "list" /\ ~IsErr(ret)) =>
        /\ ret.t = "list"
        /\ ~is_legacy_format(ret)
        /\ before = EmptyList => ret = EmptyList

\* two legacy classes went in, two schema documents came out
C1_Witness ==
    /\ pc = "done"
    /\ before.t = "list"
    /\ is_legacy_format(before)
    /\ ret.t = "list"
    /\ Len(Val(ret)) = 2
    /\ Has(Val(ret)[2], SCHEMA_FIELD)
    /\ ~is_legacy_format(ret)

\* d[k] if the key is there, else the empty string
OrEmpty(d, k) == IF Has(d, k) THEN Val(d)[k] ELSE Str("")

\* d[k] if the key is there, else the empty sequence
OrNone(d, k) == IF Has(d, k) THEN Val(Val(d)[k]) ELSE <<>>

ValidExtensions(attr) ==
    /\ Has(attr, LEGACY_EVALUATION_METHOD) =>
          LET method == Val(attr)[LEGACY_EVALUATION_METHOD]
          IN  method.t = "str" /\ Val(method) \in {"EXACT", "NUMERIC_EXACT", "FUZZY", "SEMANTIC"}
    /\ Has(attr, LEGACY_CONFIDENCE_THRESHOLD) =>
          LET threshold == Val(attr)[LEGACY_CONFIDENCE_THRESHOLD]
          IN  IsNumeric(threshold) /\ InUnitInterval(NumericValue(threshold))
    /\ Has(attr, LEGACY_PROMPT_OVERRIDE) =>
          LET prompt == Val(attr)[LEGACY_PROMPT_OVERRIDE]
          IN  prompt.t = "str" /\ Len(Val(prompt)) <= 10000

\* the attributes nested in attr, whatever its attributeType
NestedAttrs(attr) ==
    OrNone(attr, LEGACY_GROUP_ATTRIBUTES)
    \o (IF Has(attr, LEGACY_LIST_ITEM_TEMPLATE)
        THEN OrNone(Val(attr)[LEGACY_LIST_ITEM_TEMPLATE], LEGACY_ITEM_ATTRIBUTES)
        ELSE <<>>)

\* every extension value of every attribute of the class is valid or absent
AllValid(class_config) ==
    \A j \in 1..Len(OrNone(class_config, LEGACY_ATTRIBUTES)) :
        LET attr == OrNone(class_config, LEGACY_ATTRIBUTES)[j] IN
        /\ ValidExtensions(attr)
        /\ \A k \in 1..Len(NestedAttrs(attr)) : ValidExtensions(NestedAttrs(attr)[k])

ExtensionKeys(attr) ==
    {X_AWS_IDP_EVALUATION_METHOD : k \in {LEGACY_EVALUATION_METHOD} \cap DOMAIN Val(attr)}
    \cup {X_AWS_IDP_CONFIDENCE_THRESHOLD : k \in {LEGACY_CONFIDENCE_THRESHOLD} \cap DOMAIN Val(attr)}
    \cup {X_AWS_IDP_PROMPT_OVERRIDE : k \in {LEGACY_PROMPT_OVERRIDE} \cap DOMAIN Val(attr)}

NamesOf(attrs) == {Val(OrEmpty(attrs[j], LEGACY_NAME)) : j \in 1..Len(attrs)}

\* the schema property prop is what the legacy attribute attr asks for
PropertyMatches(attr, prop) ==
    LET attr_type == IF Has(attr, LEGACY_ATTRIBUTE_TYPE)
                     THEN Val(attr)[LEGACY_ATTRIBUTE_TYPE] ELSE Str("simple")
        template == IF Has(attr, LEGACY_LIST_ITEM_TEMPLATE)
                    THEN Val(attr)[LEGACY_LIST_ITEM_TEMPLATE] ELSE EmptyDict
        item_attrs == OrNone(template, LEGACY_ITEM_ATTRIBUTES)
    IN  /\ Val(prop)[SCHEMA_DESCRIPTION] = OrEmpty(attr, LEGACY_DESCRIPTION)
        /\ attr_type = Str("group") =>
              /\ Val(prop)[SCHEMA_TYPE] = Str("object")
              /\ DOMAIN Val(Val(prop)[SCHEMA_PROPERTIES])
                    = NamesOf(OrNone(attr, LEGACY_GROUP_ATTRIBUTES))
        /\ attr_type = Str("list") =>
              /\ Val(prop)[SCHEMA_TYPE] = Str("array")
              /\ Has(prop, SCHEMA_ITEMS)
              /\ Len(item_attrs) = 0 =>
                    Val(prop)[SCHEMA_ITEMS] = Dict((SCHEMA_TYPE :> Str("object"))
                                                   @@ (SCHEMA_PROPERTIES :> EmptyDict))
        /\ attr_type \notin {Str("group"), Str("list")} =>
              /\ Val(prop)[SCHEMA_TYPE] = Str("string")
              /\ DOMAIN Val(prop) = {SCHEMA_TYPE, SCHEMA_DESCRIPTION} \cup ExtensionKeys(attr)

\* the schema document doc is what the legacy class class_config asks for
DocumentMatches(class_config, doc) ==
    LET attrs == OrNone(class_config, LEGACY_ATTRIBUTES)
        props == Val(doc)[SCHEMA_PROPERTIES]
    IN  /\ Val(doc)[ID_FIELD] = OrEmpty(class_config, LEGACY_NAME)
        /\ Has(doc, SCHEMA_DESCRIPTION) => 
              Val(doc)[SCHEMA_DESCRIPTION] = OrEmpty(class_config, LEGACY_DESCRIPTION)
        /\ ~Has(doc, SCHEMA_DESCRIPTION) => OrEmpty(class_config, LEGACY_DESCRIPTION) = Str("")
        /\ DOMAIN Val(props) = NamesOf(attrs)
        /\ \A j \in 1..Len(attrs) :
              LET attr_name == Val(OrEmpty(attrs[j], LEGACY_NAME)) IN
              (\A k \in (j + 1)..Len(attrs) : Val(OrEmpty(attrs[k], LEGACY_NAME)) # attr_name)
                  => PropertyMatches(attrs[j], Val(props)[attr_name])

\* C9: migrate_legacy_to_schema raises only for an invalid evaluation_method,
\* confidence_threshold or prompt_override: on a list of classes whose
\* extension values are all valid or absent the call returns, a missing name
\* or description reading as the empty string, a missing attributes,
\* groupAttributes, listItemTemplate or itemAttributes as empty, a missing
\* attributeType as simple, and an unknown attributeType giving exactly the
\* property a simple attribute gives.
C9_OnlyExtensionErrors ==
    (pc = "done" /\ before.t = "list") =>
        /\ (\A i \in 1..Len(Val(before)) : AllValid(Val(before)[i])) => ~IsErr(ret)
        /\ IsErr(ret) => Val(ret).exc = "ValueError"
        /\ ~IsErr(ret) =>
              /\ Len(Val(ret)) = Len(Val(before))
              /\ \A i \in 1..Len(Val(before)) : DocumentMatches(Val(before)[i], Val(ret)[i])

\* a nameless class whose one attribute has neither name nor description, an
\* unknown attributeType and a groupAttributes list: one string property ""
C9_Witness ==
    /\ pc = "done"
    /\ before = List(<<Dict((LEGACY_ATTRIBUTES :> List(<<
                    Dict((LEGACY_ATTRIBUTE_TYPE :> Str("table"))
                         @@ (LEGACY_GROUP_ATTRIBUTES :> List(<<EmptyDict>>)))>>)))>>)
    /\ ret = List(<<Dict((SCHEMA_FIELD :> Str("https://json-schema.org/draft/2020-12/schema"))
                         @@ (ID_FIELD :> Str(""))
                         @@ (X_AWS_IDP_DOCUMENT_TYPE :> Str(""))
                         @@ (SCHEMA_TYPE :> Str("object"))
                         @@ (SCHEMA_PROPERTIES :>
                                Dict(("" :> Dict((SCHEMA_TYPE :> Str("string"))
                                                 @@ (SCHEMA_DESCRIPTION :> Str("")))))))>>)

\* C10: migrating one legacy class dict that is not wrapped in a list yields
\* the same one-element array of SchemaDocuments as migrating the one-element
\* list that holds the class.
C10_SingleClassAccepted ==
    (pc = "done" /\ before.t = "dict" /\ is_legacy_format(before)
        /\ ~IsErr(migrate_legacy_to_schema(List(<<before>>)))) =>
        /\ ret = migrate_legacy_to_schema(List(<<before>>))
        /\ Len(Val(ret)) = 1

(***************************************************************************)
(* The migrate-if-legacy step of ConfigurationManager, applied twice        *)
(* Here before is config['classes'] as first given, arg is config['classes']*)
(* after the first step, ret is what the latest step left or raised.        *)
(***************************************************************************)
SchemaDocumentA ==
    Dict((SCHEMA_FIELD :> Str("https://json-schema.org/draft/2020-12/schema"))
         @@ (ID_FIELD :> Str("A"))
         @@ (X_AWS_IDP_DOCUMENT_TYPE :> Str("A"))
         @@ (SCHEMA_TYPE :> Str(TYPE_OBJECT))
         @@ (SCHEMA_PROPERTIES :>
                Dict(("a" :> Dict((SCHEMA_TYPE :> Str(TYPE_STRING))
                                  @@ (SCHEMA_DESCRIPTION :> Str("d")))))))

\* classes already in JSON Schema form: written by hand, and as migration
\* leaves them
NormalizedInputs ==
    {EmptyList, SchemaDocumentA, List(<<SchemaDocumentA>>),
     List(<<Put(SchemaDocumentA, LEGACY_ATTRIBUTES, EmptyList)>>)}
    \cup {List(<<SchemaDocumentA, c>>) : c \in FewClasses}
    \cup {r \in {migrate_legacy_to_schema(l) : l \in ClassLists} : ~IsErr(r)}

MigrateIfLegacyInputs ==
    {Null} \cup NormalizedInputs \cup ClassLists \cup FewClasses
    \cup {l \in SingleAttributeLists : Has(Val(l)[1], LEGACY_NAME)}

InitMigrateIfLegacy ==
    /\ NoTable
    /\ pc = "start"
    /\ arg \in MigrateIfLegacyInputs
    /\ before = Null
    /\ ret = Null

\* the step on the classes as given
CallMigrateIfLegacy ==
    /\ UNCHANGED <<table, puts, locals>>
    /\ pc = "start"
    /\ pc' = "done"
    /\ before' = arg
    /\ ret' = migrate_if_legacy(arg)
    /\ arg' = IF IsErr(migrate_if_legacy(arg)) THEN arg ELSE migrate_if_legacy(arg)

\* the step on what the first step left
CallMigrateIfLegacyAgain ==
    /\ UNCHANGED <<table, puts, locals>>
    /\ pc = "done"
    /\ ~IsErr(ret)
    /\ pc' = "again"
    /\ ret' = migrate_if_legacy(arg)
    /\ UNCHANGED <<arg, before>>

NextMigrateIfLegacy == CallMigrateIfLegacy \/ CallMigrateIfLegacyAgain

SpecMigrateIfLegacy == InitMigrateIfLegacy /\ [][NextMigrateIfLegacy]_vars

\* C2: the migrate-if-legacy step is idempotent: applied to the result of a
\* previous migrate-if-legacy it returns that result unchanged, and classes
\* that are not legacy pass through the step unchanged.
C2_MigrateIfLegacyIdempotent ==
    /\ pc = "again" => ret = arg
    /\ (pc = "done" /\ ~is_legacy_format(before)) => ret = before

\* two legacy classes were migrated by the first step and left alone by the second
C2_Witness ==
    /\ pc = "again"
    /\ is_legacy_format(before)
    /\ arg # before
    /\ Len(Val(arg)) = 2
    /\ ret = arg

(***************************************************************************)
(* The three attribute migrators: inputs and the calls                     *)
(***************************************************************************)
\* two children of one name that differ, and a child named "name"
SubAttrsX2 ==
    List(<<Dict((LEGACY_NAME :> Str("x")) @@ (LEGACY_DESCRIPTION :> Str("first"))),
           Dict((LEGACY_NAME :> Str("x")) @@ (LEGACY_DESCRIPTION :> Str("second"))
                @@ (LEGACY_PROMPT_OVERRIDE :> Str("q")))>>)

SubAttrsNamed ==
    List(<<Dict((LEGACY_NAME :> Str("name")) @@ (LEGACY_CONFIDENCE_THRESHOLD :> IntV(1))),
           Dict((LEGACY_DESCRIPTION :> Str("nameless")))>>)

ExtraNestings ==
    {[group |-> g, template |-> Absent] : g \in {SubAttrsX2, SubAttrsNamed}}
    \cup {[group |-> Absent, template |-> Dict((LEGACY_ITEM_ATTRIBUTES :> a))]
            : a \in {SubAttrsX2, SubAttrsNamed,
                     List(<<Dict((LEGACY_NAME :> Str("foo"))
                                 @@ (LEGACY_EVALUATION_METHOD :> Str("SEMANTIC")))>>)}}

AttributeInputs ==
    LegacyAttributes
    \cup {MkAttribute(<<Str("a"), Str("d")>>, Absent, n, x)
            : n \in ExtraNestings, x \in ExtensionChoices}

InitAttribute ==
    /\ NoTable
    /\ pc = "start"
    /\ arg \in AttributeInputs
    /\ before = Null
    /\ ret = Null

CallMigrateSimpleAttribute ==
    /\ UNCHANGED <<table, puts, locals>>
    /\ pc = "start"
    /\ pc' = "simple"
    /\ before' = arg
    /\ ret' = migrate_simple_attribute(arg)
    /\ UNCHANGED arg

CallMigrateGroupAttribute ==
    /\ UNCHANGED <<table, puts, locals>>
    /\ pc = "start"
    /\ pc' = "group"
    /\ before' = arg
    /\ ret' = migrate_group_attribute(arg)
    /\ UNCHANGED arg

CallMigrateListAttribute ==
    /\ UNCHANGED <<table, puts, locals>>
    /\ pc = "start"
    /\ pc' = "list"
    /\ before' = arg
    /\ ret' = migrate_list_attribute(arg)
    /\ UNCHANGED arg

NextAttribute ==
    \/ CallMigrateSimpleAttribute
    \/ CallMigrateGroupAttribute
    \/ CallMigrateListAttribute

SpecAttribute == InitAttribute /\ [][NextAttribute]_vars

\* legacy key and extension field, pairwise
ExtensionPairs ==
    {<<LEGACY_EVALUATION_METHOD, X_AWS_IDP_EVALUATION_METHOD>>,
     <<LEGACY_CONFIDENCE_THRESHOLD, X_AWS_IDP_CONFIDENCE_THRESHOLD>>,
     <<LEGACY_PROMPT_OVERRIDE, X_AWS_IDP_PROMPT_OVERRIDE>>}

\* the extension fields of a returned property are those the attribute supplies
CarriesOwnExtensions(property, attr) ==
    \A p \in ExtensionPairs : Has(property, p[2]) <=> Has(attr, p[1])

\* C11: a simple attribute migrates to a property of type string with the
\* attribute's description ("" without one); the property has an extension
\* field iff the attribute has the legacy key; it has no other key, so not the
\* attribute's name; with no extension key supplied the call returns exactly
\* {type: string, description}.
C11_SimpleAttribute ==
    pc = "simple" =>
        /\ ~IsErr(ret) =>
              /\ Val(ret)[SCHEMA_TYPE] = Str("string")
              /\ Val(ret)[SCHEMA_DESCRIPTION] =
                    (IF Has(arg, "description") THEN Val(arg)["description"] ELSE Str(""))
              /\ CarriesOwnExtensions(ret, arg)
              /\ DOMAIN Val(ret) \subseteq
                    {SCHEMA_TYPE, SCHEMA_DESCRIPTION} \cup {p[2] : p \in ExtensionPairs}
              /\ ~Has(ret, "name")
        /\ (\A p \in ExtensionPairs : ~Has(arg, p[1])) =>
              ret = Dict([type |-> Str("string"),
                          description |-> IF Has(arg, "description")
                                          THEN Val(arg)["description"] ELSE Str("")])

C11_Witness ==
    /\ pc = "simple"
    /\ arg = Dict([name |-> Str("a"), description |-> Str("d"), attributeType |-> Str("simple")])
    /\ ret = Dict([type |-> Str("string"), description |-> Str("d")])

\* the name a child is filed under
ChildName(child) == IF Has(child, "name") THEN Val(Val(child)["name"]) ELSE ""

\* name -> simple migration of the child of that name (of the last one, when
\* several children share a name)
SimpleByName(children) ==
    Dict([k \in {ChildName(children[i]) : i \in 1..Len(children)} |->
            migrate_simple_attribute(
                children[Max({i \in 1..Len(children) : ChildName(children[i]) = k})])])

\* C12: a group attribute migrates to a property of type object with the
\* group's description and a properties map holding, under each child's name,
\* the simple migration of that child; the extension fields of the group
\* property are those supplied on the group attribute, with the group's values,
\* whatever the children supply.
C12_GroupAttribute ==
    (pc = "group" /\ ~IsErr(ret)) =>
        LET children == IF Has(arg, "groupAttributes") THEN Val(Val(arg)["groupAttributes"]) ELSE <<>>
        IN  /\ Val(ret)[SCHEMA_TYPE] = Str("object")
            /\ Val(ret)[SCHEMA_DESCRIPTION] =
                  (IF Has(arg, "description") THEN Val(arg)["description"] ELSE Str(""))
            /\ Val(ret)[SCHEMA_PROPERTIES] = SimpleByName(children)
            /\ CarriesOwnExtensions(ret, arg)
            /\ Has(arg, "evaluation_method") =>
                  Val(ret)[X_AWS_IDP_EVALUATION_METHOD] = Val(arg)["evaluation_method"]
            /\ Has(arg, "prompt_override") =>
                  Val(ret)[X_AWS_IDP_PROMPT_OVERRIDE] = Val(arg)["prompt_override"]
            /\ DOMAIN Val(ret) \subseteq
                  {SCHEMA_TYPE, SCHEMA_DESCRIPTION, SCHEMA_PROPERTIES}
                  \cup {p[2] : p \in ExtensionPairs}

\* a group without extensions whose child supplies one
C12_Witness ==
    /\ pc = "group"
    /\ ~Has(arg, "evaluation_method")
    /\ Has(arg, "groupAttributes")
    /\ Val(arg)["groupAttributes"] =
          List(<<Dict([name |-> Str("x"), description |-> Str("dx")]),
                 Dict([name |-> Str("y"), evaluation_method |-> Str("FUZZY")])>>)
    /\ ~IsErr(ret)
    /\ ~Has(ret, X_AWS_IDP_EVALUATION_METHOD)
    /\ Val(Val(ret)[SCHEMA_PROPERTIES])["y"] =
          Dict((SCHEMA_TYPE :> Str("string")) @@ (SCHEMA_DESCRIPTION :> Str(""))
               @@ (X_AWS_IDP_EVALUATION_METHOD :> Str("FUZZY")))

\* listItemTemplate.itemAttributes of a list attribute, [] without one
ItemAttrsOf(attr) ==
    IF Has(attr, "listItemTemplate") /\ Has(Val(attr)["listItemTemplate"], "itemAttributes")
    THEN Val(Val(Val(attr)["listItemTemplate"])["itemAttributes"])
    ELSE <<>>

\* C13: a list attribute migrates to a property of type array; with exactly one
\* entry in listItemTemplate.itemAttributes, items is the simple migration of
\* that entry plus an original-name extension equal to the entry's name (no such
\* extension when the entry has no name); with two or more entries, items is
\* {type: object, properties} where properties holds the simple migration of
\* each entry under its name, and items has no original-name extension.
C13_ListItems ==
    (pc = "list" /\ ~IsErr(ret)) =>
        LET entries == ItemAttrsOf(arg)
            items == Val(ret)[SCHEMA_ITEMS]
        IN  /\ Val(ret)[SCHEMA_TYPE] = Str("array")
            /\ Len(entries) = 1 =>
                  /\ [k \in DOMAIN Val(items) \ {X_AWS_IDP_ORIGINAL_NAME} |-> Val(items)[k]]
                        = Val(migrate_simple_attribute(entries[1]))
                  /\ Has(items, X_AWS_IDP_ORIGINAL_NAME) <=> Has(entries[1], "name")
                  /\ Has(entries[1], "name") =>
                        Val(items)[X_AWS_IDP_ORIGINAL_NAME] = Val(entries[1])["name"]
            /\ Len(entries) >= 2 =>
                  items = Dict((SCHEMA_TYPE :> Str("object"))
                               @@ (SCHEMA_PROPERTIES :> SimpleByName(entries)))

C13_Witness ==
    /\ pc = "list"
    /\ ItemAttrsOf(arg) = <<Dict([name |-> Str("foo"), evaluation_method |-> Str("SEMANTIC")])>>
    /\ ~IsErr(ret)
    /\ Val(ret)[SCHEMA_ITEMS] =
          Dict((SCHEMA_TYPE :> Str("string")) @@ (SCHEMA_DESCRIPTION :> Str(""))
               @@ (X_AWS_IDP_EVALUATION_METHOD :> Str("SEMANTIC"))
               @@ (X_AWS_IDP_ORIGINAL_NAME :> Str("foo")))

C13_WitnessSeveral ==
    /\ pc = "list"
    /\ Len(ItemAttrsOf(arg)) = 2
    /\ ~IsErr(ret)
    /\ DOMAIN Val(Val(Val(ret)[SCHEMA_ITEMS])[SCHEMA_PROPERTIES]) = {"x", "y"}

\* C14 as the claim states it: the array property of a list attribute never
\* carries a prompt-override extension, and a prompt_override on the list
\* attribute never fails its migration.
C14_NoPromptOverrideOnList ==
    pc = "list" =>
        /\ ~IsErr(ret) => ~Has(ret, X_AWS_IDP_PROMPT_OVERRIDE)
        /\ Raised(PromptMsgs) =>
              \E i \in 1..Len(ItemAttrsOf(arg)) : Has(ItemAttrsOf(arg)[i], "prompt_override")

\* C14, amended: the prompt_override of a list attribute is validated and
\* copied like that of any attribute.  When the attribute migrates without its
\* prompt_override, then with it the call fails if the value is not a string or
\* is longer than 10,000 characters, and otherwise returns the same array
\* property plus the prompt-override extension holding the value; when the
\* attribute does not migrate without it, the same error is raised with it.
C14_ListPromptOverride ==
    (pc = "list" /\ Has(arg, "prompt_override")) =>
        LET prompt == Val(arg)["prompt_override"]
            bad == prompt.t # "str" \/ Len(Val(prompt)) > 10000
            rest == migrate_list_attribute(Without(arg, "prompt_override"))
        IN  IF IsErr(rest) THEN ret = rest
            ELSE IF bad THEN Raised(PromptMsgs)
            ELSE ret = Dict(Val(rest) @@ (X_AWS_IDP_PROMPT_OVERRIDE :> prompt))

\* a list attribute whose prompt_override is not a string
C14_Witness ==
    /\ pc = "list"
    /\ Has(arg, "attributeType") /\ Val(arg)["attributeType"] = Str("list")
    /\ Has(arg, "prompt_override") /\ Val(arg)["prompt_override"] = IntV(5)
    /\ Len(ItemAttrsOf(arg)) = 1
    /\ Raised(PromptMsgs)

C14_WitnessCopied ==
    /\ pc = "list"
    /\ Has(arg, "attributeType") /\ Val(arg)["attributeType"] = Str("list")
    /\ Has(arg, "prompt_override") /\ Val(arg)["prompt_override"] = Str("p")
    /\ ~IsErr(ret)
    /\ Val(ret)[X_AWS_IDP_PROMPT_OVERRIDE] = Str("p")

(***************************************************************************)
(* _migrate_examples: inputs and the call                                  *)
(***************************************************************************)
MaxExamples == 2

\* JSON objects as they are written in a prompt, each with the value that
\* json.loads gives for it
BlockCases ==
    {[span |-> "{\"foo\": \"bar\", \"count\": 3}",
      obj |-> ("foo" :> Str("bar")) @@ ("count" :> IntV(3))],
     [span |-> "{\n \"total\": 2.5,\n \"paid\": true,\n \"due\": null\n}",
      obj |-> ("total" :> FloatV(25, 1)) @@ ("paid" :> Bool(TRUE)) @@ ("due" :> Null)],
     [span |-> "{\"to\": {\"zip\": 7}, \"tags\": [1, \"a\"]}",
      obj |-> ("to" :> Dict(("zip" :> IntV(7))))
              @@ ("tags" :> List(<<IntV(1), Str("a")>>))],
     [span |-> "{\"name\": \"Bob\"}",
      obj |-> ("name" :> Str("Bob"))],
     [span |-> "{\"x-aws-idp-class-prompt\": \"other\", \"x-aws-idp-attributes-prompt\": null, \"x-aws-idp-image-path\": 1}",
      obj |-> (X_AWS_IDP_CLASS_PROMPT :> Str("other")) @@ (X_AWS_IDP_ATTRIBUTES_PROMPT :> Null)
              @@ (X_AWS_IDP_IMAGE_PATH :> IntV(1))],
     [span |-> "{}", obj |-> <<>>]}

\* the text around the object: nothing, or prose without braces
Affixes == {<<"", "">>, <<"Expected: ", " end">>}

BlockPrompt(c, a) == Str(a[1] \o c.span \o a[2])

BlockPrompts == {BlockPrompt(c, a) : c \in BlockCases, a \in Affixes}

\* prompts from which neither strategy extracts anything: no braces and no
\* pairs, braces around what is no JSON, two objects in one text, a pair
\* whose rebuilt text is no JSON, and a prompt that is not a string
MalformedPrompts ==
    {Str(""),
     Str("no values here"),
     Str("{ broken"),
     Str("{'sender': 'Will'}"),
     Str("{\"a\": 1} and {\"b\": 2}"),
     Str("{\"a\": }"),
     Str("\"a\": \"b\\qc\""),
     IntV(5)}

\* prompts that only the key-value pattern reads
PairPrompts == {Str("\"sender\": \"Will\",\n \"cc\": null")}

AttributesPrompts == BlockPrompts \cup MalformedPrompts \cup PairPrompts

MkExample(name, classPrompt, attributesPrompt, imagePath) ==
    MkDict((LEGACY_NAME :> name) @@ (LEGACY_CLASS_PROMPT :> classPrompt)
           @@ (LEGACY_ATTRIBUTES_PROMPT :> attributesPrompt)
           @@ (LEGACY_IMAGE_PATH :> imagePath))

LegacyExamples ==
    {MkExample(Str("Ex1"), Str("an example"), p, Str("img/ex1.jpg")) : p \in AttributesPrompts}
    \cup {MkExample(Absent, Absent, p, Absent)
            : p \in {BlockPrompt(c, <<"", "">>) : c \in BlockCases} \cup {Str("{ broken")}}
    \cup {EmptyDict,
          MkExample(Str("Ex2"), Absent, Absent, Absent),
          MkExample(Absent, Str("cp"), Absent, Str("img"))}

ExamplesInputs == {Null} \cup {List(q) : q \in SeqsUpTo(LegacyExamples, MaxExamples)}

InitExamples ==
    /\ NoTable
    /\ pc = "start"
    /\ arg \in ExamplesInputs
    /\ before = Null
    /\ ret = Null

CallMigrateExamples ==
    /\ UNCHANGED <<table, puts, locals>>
    /\ pc = "start"
    /\ pc' = "examples"
    /\ before' = arg
    /\ ret' = migrate_examples(arg)
    /\ UNCHANGED arg

NextExamples == CallMigrateExamples

SpecExamples == InitExamples /\ [][NextExamples]_vars

ExampleFields ==
    <<<<LEGACY_NAME, LEGACY_NAME>>,
      <<LEGACY_CLASS_PROMPT, X_AWS_IDP_CLASS_PROMPT>>,
      <<LEGACY_ATTRIBUTES_PROMPT, X_AWS_IDP_ATTRIBUTES_PROMPT>>,
      <<LEGACY_IMAGE_PATH, X_AWS_IDP_IMAGE_PATH>>>>

HasAllFields(example) == \A f \in 1..4 : Has(example, ExampleFields[f][1])
HasSomeField(example) == \E f \in 1..4 : Has(example, ExampleFields[f][1])

\* C15: when every example of the list has name, classPrompt, attributesPrompt
\* and imagePath, the migrated list has the same length and its i-th entry
\* holds the i-th example's four values under name, class-prompt,
\* attributes-prompt and image-path.
C15_MetadataPreserved ==
    (pc = "examples" /\ arg.t = "list"
        /\ \A i \in 1..Len(Val(arg)) : HasAllFields(Val(arg)[i])) =>
        /\ ret.t = "list"
        /\ Len(Val(ret)) = Len(Val(arg))
        /\ \A i \in 1..Len(Val(arg)) : \A f \in 1..4 :
              /\ Has(Val(ret)[i], ExampleFields[f][2])
              /\ Val(Val(ret)[i])[ExampleFields[f][2]] = Val(Val(arg)[i])[ExampleFields[f][1]]

\* the place in the migrated list of the i-th legacy example: the examples
\* that hold none of the four fields are not emitted
EmittedIndex(examples, i) == Cardinality({j \in 1..i : HasSomeField(examples[j])})

\* C16: when the attributesPrompt of an example is a JSON object with text
\* without braces around it, so that the span from the first "{" to the last
\* "}" is that object, every top-level key of the object is a key of the
\* migrated example and holds the parsed value: strings, numbers, booleans,
\* null, nested objects and lists.
C16_JsonBlockKeys ==
    (pc = "examples" /\ arg.t = "list") =>
        \A i \in 1..Len(Val(arg)) : \A c \in BlockCases : \A a \in Affixes :
            (/\ Has(Val(arg)[i], LEGACY_ATTRIBUTES_PROMPT)
             /\ Val(Val(arg)[i])[LEGACY_ATTRIBUTES_PROMPT] = BlockPrompt(c, a)) =>
                /\ ret.t = "list"
                /\ EmittedIndex(Val(arg), i) \in 1..Len(Val(ret))
                /\ \A k \in DOMAIN c.obj :
                      /\ Has(Val(ret)[EmittedIndex(Val(arg), i)], k)
                      /\ Val(Val(ret)[EmittedIndex(Val(arg), i)])[k] = c.obj[k]

\* an example behind a dropped one whose prompt holds a number, a nested
\* object and a list
C16_Witness ==
    /\ pc = "examples" /\ arg.t = "list" /\ ret.t = "list"
    /\ Len(Val(arg)) = 2 /\ Len(Val(ret)) = 1
    /\ Val(arg)[1] = EmptyDict
    /\ Has(Val(arg)[2], LEGACY_ATTRIBUTES_PROMPT)
    /\ Val(Val(arg)[2])[LEGACY_ATTRIBUTES_PROMPT]
          = Str("Expected: {\"to\": {\"zip\": 7}, \"tags\": [1, \"a\"]} end")
    /\ Val(Val(ret)[1])["to"] = Dict(("zip" :> IntV(7)))
    /\ Val(Val(ret)[1])["tags"] = List(<<IntV(1), Str("a")>>)

C16_WitnessNumber ==
    /\ pc = "examples" /\ ret.t = "list" /\ Len(Val(ret)) = 1
    /\ Has(Val(ret)[1], "count") /\ Val(Val(ret)[1])["count"] = IntV(3)
    /\ Has(Val(ret)[1], "foo") /\ Val(Val(ret)[1])["foo"] = Str("bar")

\* C17: an attributesPrompt from which neither strategy extracts anything
\* raises no error; the example is emitted, its attributes-prompt is the
\* original prompt, and it holds no key besides the four fields, each with the
\* legacy example's value.
C17_MalformedPromptKept ==
    (pc = "examples" /\ arg.t = "list") =>
        /\ ret.t = "list"
        /\ \A i \in 1..Len(Val(arg)) :
            (/\ Has(Val(arg)[i], LEGACY_ATTRIBUTES_PROMPT)
             /\ Val(Val(arg)[i])[LEGACY_ATTRIBUTES_PROMPT] \in MalformedPrompts) =>
                /\ EmittedIndex(Val(arg), i) \in 1..Len(Val(ret))
                /\ LET m == Val(ret)[EmittedIndex(Val(arg), i)] IN
                   /\ DOMAIN Val(m) = {ExampleFields[f][2] : f \in {g \in 1..4 :
                                            Has(Val(arg)[i], ExampleFields[g][1])}}
                   /\ \A f \in 1..4 : Has(Val(arg)[i], ExampleFields[f][1]) =>
                         Val(m)[ExampleFields[f][2]] = Val(Val(arg)[i])[ExampleFields[f][1]]

\* braces around what is no JSON, and nothing but the prompt in the example
C17_Witness ==
    /\ pc = "examples" /\ arg = List(<<Dict((LEGACY_ATTRIBUTES_PROMPT :> Str("{ broken")))>>)
    /\ ret = List(<<Dict((X_AWS_IDP_ATTRIBUTES_PROMPT :> Str("{ broken")))>>)

\* a pair that the pattern finds and json.loads rejects, and a prompt that is
\* no string
C17_WitnessRebuilt ==
    /\ pc = "examples" /\ arg.t = "list" /\ Len(Val(arg)) = 2 /\ ret.t = "list"
    /\ HasAllFields(Val(arg)[1]) /\ HasAllFields(Val(arg)[2])
    /\ Val(Val(arg)[1])[LEGACY_ATTRIBUTES_PROMPT] = Str("\"a\": \"b\\qc\"")
    /\ Val(Val(arg)[2])[LEGACY_ATTRIBUTES_PROMPT] = IntV(5)
    /\ Len(Val(ret)) = 2
    /\ Val(Val(ret)[2])[X_AWS_IDP_ATTRIBUTES_PROMPT] = IntV(5)

\* the examples of a legacy class that hold any of the four fields
KeptExamples(class_config) ==
    IF Has(class_config, LEGACY_EXAMPLES) /\ Val(class_config)[LEGACY_EXAMPLES].t = "list"
    THEN SelectSeq(Val(Val(class_config)[LEGACY_EXAMPLES]), HasSomeField)
    ELSE <<>>

\* C18: the document of a class has an examples key exactly when some example
\* of the class migrates to a record that is not empty; the examples then are
\* as many as those records and none of them is empty.  A class without an
\* examples key, with an empty examples list, or with none but empty examples
\* gives a document without an examples key.
C18_ExamplesKey ==
    (pc = "done" /\ arg.t = "list" /\ ~IsErr(ret)) =>
        /\ Len(Val(ret)) = Len(Val(arg))
        /\ \A i \in 1..Len(Val(arg)) :
              /\ Has(Val(ret)[i], SCHEMA_EXAMPLES) <=> Len(KeptExamples(Val(arg)[i])) > 0
              /\ Has(Val(ret)[i], SCHEMA_EXAMPLES) =>
                    /\ Len(Val(Val(Val(ret)[i])[SCHEMA_EXAMPLES]))
                          = Len(KeptExamples(Val(arg)[i]))
                    /\ \A j \in 1..Len(Val(Val(Val(ret)[i])[SCHEMA_EXAMPLES])) :
                          Val(Val(Val(ret)[i])[SCHEMA_EXAMPLES])[j] # EmptyDict

\* a class with none but empty examples next to one with an empty one among
\* three: no examples key for the first, two examples for the second
C18_Witness ==
    /\ pc = "done" /\ arg.t = "list" /\ ~IsErr(ret) /\ Len(Val(arg)) = 2
    /\ Has(Val(arg)[1], LEGACY_EXAMPLES)
    /\ Val(Val(arg)[1])[LEGACY_EXAMPLES] = List(<<EmptyDict, EmptyDict>>)
    /\ ~Has(Val(ret)[1], SCHEMA_EXAMPLES)
    /\ Has(Val(arg)[2], LEGACY_EXAMPLES)
    /\ Len(Val(Val(Val(arg)[2])[LEGACY_EXAMPLES])) = 3
    /\ Has(Val(ret)[2], SCHEMA_EXAMPLES)
    /\ Len(Val(Val(Val(ret)[2])[SCHEMA_EXAMPLES])) = 2

\* an empty examples list and no examples key at all
C18_WitnessEmptyList ==
    /\ pc = "done" /\ arg.t = "list" /\ ~IsErr(ret) /\ Len(Val(arg)) = 2
    /\ Has(Val(arg)[1], LEGACY_EXAMPLES) /\ Val(Val(arg)[1])[LEGACY_EXAMPLES] = EmptyList
    /\ ~Has(Val(arg)[2], LEGACY_EXAMPLES)
    /\ ~Has(Val(ret)[1], SCHEMA_EXAMPLES) /\ ~Has(Val(ret)[2], SCHEMA_EXAMPLES)

(***************************************************************************)
(* _find_referenced_classes: inputs and the call                           *)
(***************************************************************************)
\* which classes each of n classes refers to, two at most: every cycle and
\* every diamond over n classes is among them
RefGraphs(n) == {g \in [1..n -> SUBSET (1..n)] : \A i \in 1..n : Cardinality(g[i]) <= 2}

\* a class refers to itself directly, to a later class as the items of a
\* list, and to an earlier class from inside a nested object
RefFormOf(i, j) == IF j = i THEN "direct" ELSE IF j > i THEN "items" ELSE "nested"

RefClass(i, targets, flag) ==
    LET keys == {"p" \o ClassNames[j] : j \in targets}
        target(k) == CHOOSE j \in targets : k = "p" \o ClassNames[j]
        properties == [k \in keys |->
                          RefProperty(RefFormOf(i, target(k)), "#" \o DEFS_FIELD \o "/",
                                      ClassNames[target(k)])]
        base == (LEGACY_NAME :> Str(ClassNames[i]))
                @@ (LEGACY_ATTRIBUTES :>
                        Dict((SCHEMA_TYPE :> Str(TYPE_OBJECT))
                             @@ (SCHEMA_PROPERTIES :> Dict(properties))))
    IN  Dict(IF flag THEN base @@ (X_AWS_IDP_DOCUMENT_TYPE :> Bool(TRUE)) ELSE base)

\* the classes of a graph; the first is the root, and the root and the last
\* class are document types or not
RefClasses(n, g, flagged) == [i \in 1..n |-> RefClass(i, g[i], i \in flagged)]

ResolveArgs(n, g, flagged) ==
    List(<<RefClasses(n, g, flagged)[1], List(RefClasses(n, g, flagged))>>)

ResolveInputs ==
    UNION {{ResolveArgs(n, g, flagged) : g \in RefGraphs(n), flagged \in SUBSET {1, n}}
              : n \in 1..MaxClasses}

InitResolve ==
    /\ NoTable
    /\ pc = "start"
    /\ arg \in ResolveInputs
    /\ before = Null
    /\ ret = Null

\* referenced = _find_referenced_classes(root_class, all_classes)
CallFindReferencedClasses ==
    /\ UNCHANGED <<table, puts, locals>>
    /\ pc = "start"
    /\ pc' = "resolved"
    /\ before' = arg
    /\ ret' = Then(find_referenced_classes(Val(arg)[1], Val(Val(arg)[2]), {}),
                   LAMBDA walk : List(walk.referenced))
    /\ UNCHANGED arg

NextResolve == CallFindReferencedClasses

SpecResolve == InitResolve /\ [][NextResolve]_vars

\* cls refers to the class named name, through its property "p" + name
RefersTo(cls, name) == Has(properties_of(cls), "p" \o name)

\* C19: on every class list the resolution returns, cycles among the
\* references included, and no class is twice in the returned sequence.
C19_ResolvesOnce ==
    pc = "resolved" =>
        /\ ret.t = "list"
        /\ \A i, j \in 1..Len(Val(ret)) : Val(ret)[i] = Val(ret)[j] => i = j

\* A refers to itself and to B, B refers to A and C, C refers to B, and none
\* is a document type: the root is returned among the classes it refers to
C19_Witness ==
    /\ pc = "resolved" /\ ret.t = "list"
    /\ Len(Val(Val(arg)[2])) = 3
    /\ \A i \in 1..3 : ~IsFlagged(Val(Val(arg)[2])[i])
    /\ RefersTo(Val(Val(arg)[2])[1], "A") /\ RefersTo(Val(Val(arg)[2])[1], "B")
    /\ RefersTo(Val(Val(arg)[2])[2], "A") /\ RefersTo(Val(Val(arg)[2])[2], "C")
    /\ RefersTo(Val(Val(arg)[2])[3], "B")
    /\ Len(Val(ret)) = 3

\* a diamond under a document type: A refers to B and C, B refers to C
C19_WitnessDiamond ==
    /\ pc = "resolved" /\ ret.t = "list"
    /\ Len(Val(Val(arg)[2])) = 3
    /\ IsFlagged(Val(arg)[1])
    /\ RefersTo(Val(Val(arg)[2])[1], "B") /\ RefersTo(Val(Val(arg)[2])[1], "C")
    /\ RefersTo(Val(Val(arg)[2])[2], "C") /\ RefersTo(Val(Val(arg)[2])[2], "A")
    /\ Len(Val(ret)) = 2

\* the class of the list that has the name of the document doc
ClassOf(classes, doc) ==
    classes[CHOOSE i \in 1..Len(classes) : Val(classes[i])[LEGACY_NAME] = Val(doc)[ID_FIELD]]

\* the names that the property p of cls refers to, in either spelling
RefTargets(cls) ==
    {name \in NamesInUse \cup {MissingName} :
        /\ Has(properties_of(cls), "p")
        /\ \E form \in RefForms, prefix \in RefPrefixes :
              Val(properties_of(cls))["p"] = RefProperty(form, prefix, name)}

\* the names of the classes that are no document types when the walk runs
Hoistable(classes) ==
    {Val(Val(classes[i])[LEGACY_NAME]) : i \in {j \in 1..Len(classes) : ~IsFlagged(classes[j])}}

\* C20: assembling raises no error over references to missing classes or to
\* document types; every key of a $defs is the name of a class of the input
\* that is no document type; a document whose class refers to nothing but
\* missing classes and document types has no $defs key; and no $defs is empty.
C20_UnresolvedReferences ==
    pc = "done" =>
        /\ ret.t = "list"
        /\ \A d \in 1..Len(Val(ret)) :
              /\ Has(Val(ret)[d], DEFS_FIELD) =>
                    /\ DOMAIN Val(Val(Val(ret)[d])[DEFS_FIELD]) # {}
                    /\ DOMAIN Val(Val(Val(ret)[d])[DEFS_FIELD]) \subseteq Hoistable(Val(arg))
              /\ RefTargets(ClassOf(Val(arg), Val(ret)[d])) \cap Hoistable(Val(arg)) = {} =>
                    ~Has(Val(ret)[d], DEFS_FIELD)

\* A refers to the document type B in the spelling the code resolves, B to the
\* missing class, and C is referenced by nobody: two documents without $defs
C20_Witness ==
    /\ pc = "done" /\ ret.t = "list"
    /\ Len(Val(before)) = 3 /\ Len(Val(ret)) = 2
    /\ IsFlagged(Val(before)[1]) /\ IsFlagged(Val(before)[2]) /\ ~IsFlagged(Val(before)[3])
    /\ Has(properties_of(Val(before)[1]), "p") /\ Has(properties_of(Val(before)[2]), "p")
    /\ Val(properties_of(Val(before)[1]))["p"] = RefProperty("items", "#" \o DEFS_FIELD \o "/", "B")
    /\ Val(properties_of(Val(before)[2]))["p"] = RefProperty("items", "#" \o DEFS_FIELD \o "/", MissingName)
    /\ \A d \in 1..2 : ~Has(Val(ret)[d], DEFS_FIELD)

\* C21: assembling the empty list gives the empty list; when some class of the
\* input is flagged as document type, the documents are as many as the flagged
\* classes, in their order, each with $id and document-type marker equal to
\* the name of its class.
C21_OnePerDocumentType ==
    pc = "done" =>
        /\ before = EmptyList => ret = EmptyList
        /\ (\E i \in 1..Len(Val(before)) : IsFlagged(Val(before)[i])) =>
              /\ ret.t = "list"
              /\ Len(Val(ret)) = Len(SelectSeq(Val(before), IsFlagged))
              /\ \A d \in 1..Len(Val(ret)) :
                    /\ Val(Val(ret)[d])[ID_FIELD]
                          = Val(SelectSeq(Val(before), IsFlagged)[d])[LEGACY_NAME]
                    /\ Val(Val(ret)[d])[X_AWS_IDP_DOCUMENT_TYPE]
                          = Val(SelectSeq(Val(before), IsFlagged)[d])[LEGACY_NAME]

\* A and C are document types and B between them is not: documents A and C
C21_Witness ==
    /\ pc = "done" /\ ret.t = "list"
    /\ Len(Val(before)) = 3
    /\ IsFlagged(Val(before)[1]) /\ ~IsFlagged(Val(before)[2]) /\ IsFlagged(Val(before)[3])
    /\ Len(Val(ret)) = 2
    /\ Val(Val(ret)[1])[ID_FIELD] = Str("A")
    /\ Val(Val(ret)[2])[ID_FIELD] = Str("C")

\* C21, for migrate_legacy_to_schema (SpecMigrate): the documents returned for
\* a list of legacy classes are as many as the classes and the i-th has the
\* name of the i-th class as $id and document-type marker
C21_MigrateOnePerClass ==
    (pc = "done" /\ arg.t = "list" /\ ~IsErr(ret)) =>
        /\ Len(Val(ret)) = Len(Val(arg))
        /\ \A i \in 1..Len(Val(arg)) :
              /\ Val(Val(ret)[i])[ID_FIELD] = OrEmpty(Val(arg)[i], LEGACY_NAME)
              /\ Val(Val(ret)[i])[X_AWS_IDP_DOCUMENT_TYPE] = OrEmpty(Val(arg)[i], LEGACY_NAME)

\* C22: when the list is not empty and none of its classes is flagged, one
\* document is returned, for the first class, and the caller's list is left
\* with the document-type flag on its first class and otherwise as it was.
C22_FallbackFirstClass ==
    (/\ pc = "done"
     /\ Len(Val(before)) > 0
     /\ \A i \in 1..Len(Val(before)) : ~IsFlagged(Val(before)[i])) =>
        /\ ret.t = "list"
        /\ Len(Val(ret)) = 1
        /\ Val(Val(ret)[1])[ID_FIELD] = Val(Val(before)[1])[LEGACY_NAME]
        /\ Val(Val(ret)[1])[X_AWS_IDP_DOCUMENT_TYPE] = Val(Val(before)[1])[LEGACY_NAME]
        /\ Len(Val(arg)) = Len(Val(before))
        /\ Val(arg)[1] = Put(Val(before)[1], X_AWS_IDP_DOCUMENT_TYPE, Bool(TRUE))
        /\ \A i \in 2..Len(Val(before)) : Val(arg)[i] = Val(before)[i]

\* three classes without a flag: one document, for A, and A flagged afterwards
C22_Witness ==
    /\ pc = "done" /\ ret.t = "list"
    /\ Len(Val(before)) = 3
    /\ \A i \in 1..3 : ~IsFlagged(Val(before)[i])
    /\ Len(Val(ret)) = 1
    /\ Val(Val(ret)[1])[ID_FIELD] = Str("A")
    /\ IsFlagged(Val(arg)[1]) /\ ~IsFlagged(Val(arg)[2]) /\ ~IsFlagged(Val(arg)[3])

\* PlainProperty as it is to be emitted: the keys id and name gone from every
\* schema of it, the properties called "name" and "id" and all the rest kept
PlainEmitted ==
    Dict((SCHEMA_TYPE :> Str(TYPE_OBJECT)) @@ (SCHEMA_DESCRIPTION :> Str("d"))
         @@ (SCHEMA_PROPERTIES :> Dict(
                ("name" :> Dict((SCHEMA_TYPE :> Str(TYPE_STRING))
                                @@ (X_AWS_IDP_ORIGINAL_NAME :> Str("inner"))))
                @@ ("rows" :> Dict((SCHEMA_TYPE :> Str(TYPE_ARRAY))
                                   @@ (SCHEMA_ITEMS :> Dict(
                                          (SCHEMA_TYPE :> Str(TYPE_OBJECT))
                                          @@ (SCHEMA_PROPERTIES :> Dict(
                                                 ("id" :> Dict((SCHEMA_TYPE :> Str(TYPE_STRING)))))))))))))

\* no schema of the property holds a key id or name, at any depth of items and
\* properties
RECURSIVE NoInternalKeys(_)
NoInternalKeys(schema) ==
    schema.t = "dict" =>
        /\ DOMAIN Val(schema) \cap {"id", "name"} = {}
        /\ Has(schema, SCHEMA_ITEMS) => NoInternalKeys(Val(schema)[SCHEMA_ITEMS])
        /\ (Has(schema, SCHEMA_PROPERTIES) /\ Val(schema)[SCHEMA_PROPERTIES].t = "dict") =>
              \A q \in DOMAIN Val(Val(schema)[SCHEMA_PROPERTIES]) :
                  NoInternalKeys(Val(Val(schema)[SCHEMA_PROPERTIES])[q])

\* the emitted properties are those of the class cls, sanitized
EmitsSanitized(properties, cls) ==
    /\ DOMAIN Val(properties) = DOMAIN Val(properties_of(cls))
    /\ \A k \in DOMAIN Val(properties) :
          /\ NoInternalKeys(Val(properties)[k])
          /\ Val(properties)[k] = IF Val(properties_of(cls))[k] = PlainProperty
                                  THEN PlainEmitted
                                  ELSE Val(properties_of(cls))[k]

\* the class of the list that has the name name
ClassNamed(classes, name) ==
    classes[CHOOSE i \in 1..Len(classes) : Val(classes[i])[LEGACY_NAME] = Str(name)]

\* C23: in every document, the properties and the properties of every $defs
\* entry are those of the class they come from, with the keys id and name
\* removed from every property schema at every depth of nested properties and
\* list items, and with every other key and value as in the class.
C23_Sanitized ==
    (pc = "done" /\ ret.t = "list") =>
        \A d \in 1..Len(Val(ret)) :
            /\ EmitsSanitized(Val(Val(ret)[d])[SCHEMA_PROPERTIES], ClassOf(Val(before), Val(ret)[d]))
            /\ Has(Val(ret)[d], DEFS_FIELD) =>
                  \A n \in DOMAIN Val(Val(Val(ret)[d])[DEFS_FIELD]) :
                      EmitsSanitized(Val(Val(Val(Val(ret)[d])[DEFS_FIELD])[n])[SCHEMA_PROPERTIES],
                                     ClassNamed(Val(before), n))

\* the document type A refers to B and B holds the property with id and name
\* at every depth: sanitized in $defs, and in the document of C that holds it
C23_Witness ==
    /\ pc = "done" /\ ret.t = "list" /\ Len(Val(before)) = 3 /\ Len(Val(ret)) = 2
    /\ Has(properties_of(Val(before)[2]), "p") /\ Has(properties_of(Val(before)[3]), "p")
    /\ Val(properties_of(Val(before)[2]))["p"] = PlainProperty
    /\ Val(properties_of(Val(before)[3]))["p"] = PlainProperty
    /\ Has(Val(ret)[1], DEFS_FIELD)
    /\ Has(Val(Val(ret)[1])[DEFS_FIELD], "B")
    /\ Val(Val(Val(Val(Val(ret)[1])[DEFS_FIELD])["B"])[SCHEMA_PROPERTIES])["p"] = PlainEmitted
    /\ Val(Val(Val(ret)[2])[SCHEMA_PROPERTIES])["p"] = PlainEmitted

\* the fields copied from a legacy example, under the keys they are copied to
CopiedKeys(example) == {ExampleFields[f][2] : f \in {g \in 1..4 : Has(example, ExampleFields[g][1])}}

CopiedValue(example, k) ==
    Val(example)[ExampleFields[CHOOSE f \in 1..4 : ExampleFields[f][2] = k][1]]

C27_WitnessName ==
    /\ pc = "examples" /\ arg.t = "list" /\ ret.t = "list" /\ Len(Val(arg)) = 1
    /\ HasAllFields(Val(arg)[1])
    /\ Val(Val(arg)[1])[LEGACY_NAME] = Str("Ex1")
    /\ Len(Val(ret)) = 1
    /\ Val(Val(ret)[1])[LEGACY_NAME] = Str("Bob")

\* the attributes that the migration of attr goes through: the children of a
\* group and the item attributes of a list
MigratedWith(attr) ==
    IF Get(attr, LEGACY_ATTRIBUTE_TYPE, Null) = Str("group")
    THEN OrNone(attr, LEGACY_GROUP_ATTRIBUTES)
    ELSE IF Get(attr, LEGACY_ATTRIBUTE_TYPE, Null) = Str("list")
              /\ Has(attr, LEGACY_LIST_ITEM_TEMPLATE)
         THEN OrNone(Val(attr)[LEGACY_LIST_ITEM_TEMPLATE], LEGACY_ITEM_ATTRIBUTES)
    ELSE <<>>

\* some attribute of the class, or some child or item attribute of one, holds
\* an invalid extension value
HasInvalidExtension(class_config) ==
    \E j \in 1..Len(OrNone(class_config, LEGACY_ATTRIBUTES)) :
        \/ ~ValidExtensions(OrNone(class_config, LEGACY_ATTRIBUTES)[j])
        \/ \E k \in 1..Len(MigratedWith(OrNone(class_config, LEGACY_ATTRIBUTES)[j])) :
              ~ValidExtensions(MigratedWith(OrNone(class_config, LEGACY_ATTRIBUTES)[j])[k])

\* C28: when some class of the list holds an invalid extension value, on an
\* attribute, on a child of a group or on an item attribute of a list,
\* migrate_legacy_to_schema raises and returns no document, whatever classes
\* come before it.
C28_ValidationFatal ==
    (/\ pc = "done"
     /\ arg.t = "list"
     /\ \E i \in 1..Len(Val(arg)) : HasInvalidExtension(Val(arg)[i])) =>
        IsErr(ret)

\* a class that migrates, followed by one whose list has an item attribute
\* with an unknown evaluation_method
C28_Witness ==
    /\ pc = "done" /\ arg.t = "list" /\ Len(Val(arg)) = 2
    /\ Has(Val(arg)[1], LEGACY_EXAMPLES) /\ ~HasInvalidExtension(Val(arg)[1])
    /\ ~IsErr(migrate_legacy_to_schema(List(<<Val(arg)[1]>>)))
    /\ OrEmpty(Val(arg)[2], LEGACY_NAME) = Str("G")
    /\ HasInvalidExtension(Val(arg)[2])
    /\ Raised(MethodMsgs)

\* a group whose second child has a confidence_threshold out of range
C28_WitnessGroupChild ==
    /\ pc = "done" /\ arg.t = "list" /\ Len(Val(arg)) = 1
    /\ Len(OrNone(Val(arg)[1], LEGACY_ATTRIBUTES)) = 1
    /\ ValidExtensions(OrNone(Val(arg)[1], LEGACY_ATTRIBUTES)[1])
    /\ Get(OrNone(Val(arg)[1], LEGACY_ATTRIBUTES)[1], LEGACY_ATTRIBUTE_TYPE, Null) = Str("group")
    /\ Len(MigratedWith(OrNone(Val(arg)[1], LEGACY_ATTRIBUTES)[1])) = 2
    /\ ~ValidExtensions(MigratedWith(OrNone(Val(arg)[1], LEGACY_ATTRIBUTES)[1])[2])
    /\ Raised(ThresholdMsgs)

C26_WitnessRaised ==
    /\ pc = "done" /\ arg.t = "list" /\ Len(Val(arg)) = 2 /\ IsErr(ret)
    /\ ~HasInvalidExtension(Val(arg)[1]) /\ HasInvalidExtension(Val(arg)[2])
    /\ arg = before

(***************************************************************************)
(* configuration_manager.py: the table and the values written to it        *)
(***************************************************************************)
CONFIGURATION == "Configuration"
SAVE_AS_DEFAULT == "saveAsDefault"
Exception(msg) == Err([exc |-> "Exception", msg |-> msg])

\* Decimal(str(obj)) of a float: the same decimal under another type
DecimalV(x) == [t |-> "decimal", decimal |-> x]

\* str(obj) of a float or of the Decimal made from it: 0.5 is "0.5", 1.0 is
\* "1.0" (values below 1e-4, which print with an exponent, are not met)
FloatStr(x) ==
    Bind(IF x.n < 0 THEN 0 - x.n ELSE x.n, LAMBDA digits :
    Bind(ToString(digits % Pow10(x.e)), LAMBDA frac :
         (IF x.n < 0 THEN "-" ELSE "") \o ToString(digits \div Pow10(x.e)) \o "."
         \o (IF x.e = 0 THEN "0" ELSE Rep("0", x.e - Len(frac)) \o frac)))

\* str(obj) of a leaf
py_str(obj) ==
    CASE obj.t = "str" -> Val(obj)
      [] obj.t = "int" -> ToString(Val(obj))
      [] obj.t = "bool" -> IF Val(obj) THEN "True" ELSE "False"
      [] obj.t \in {"float", "decimal"} -> FloatStr(Val(obj))

RECURSIVE stringify_values(_)
stringify_values(obj) ==
    CASE obj.t = "dict" -> Dict([k \in DOMAIN Val(obj) |-> stringify_values(Val(obj)[k])])
      [] obj.t = "list" -> List([i \in 1..Len(Val(obj)) |-> stringify_values(Val(obj)[i])])
      [] obj.t = "null" -> Null
      [] OTHER -> Str(py_str(obj))

RECURSIVE convert_floats_to_decimal(_)
convert_floats_to_decimal(obj) ==
    CASE obj.t = "float" -> DecimalV(Val(obj))
      [] obj.t = "dict" ->
            Dict([k \in DOMAIN Val(obj) |-> convert_floats_to_decimal(Val(obj)[k])])
      [] obj.t = "list" ->
            List([i \in 1..Len(Val(obj)) |-> convert_floats_to_decimal(Val(obj)[i])])
      [] OTHER -> obj

remove_configuration_key(item) ==
    IF ~Truthy(item) THEN EmptyDict ELSE Without(item, CONFIGURATION)

RECURSIVE deep_merge(_, _)
deep_merge(target, source) ==
    IF ~Truthy(source) THEN target
    ELSE Dict([key \in DOMAIN Val(target) \cup DOMAIN Val(source) |->
                 IF key \notin DOMAIN Val(source) THEN Val(target)[key]
                 ELSE IF key \in DOMAIN Val(target) /\ Val(target)[key].t = "dict"
                         /\ Val(source)[key].t = "dict"
                      THEN deep_merge(Val(target)[key], Val(source)[key])
                      ELSE Val(source)[key]])

\* response = self.table.get_item(Key={'Configuration': config_type});
\* response.get('Item')
get_item(tbl, config_type) ==
    IF config_type \in DOMAIN tbl THEN tbl[config_type] ELSE Null

\* the table after self.table.put_item(Item=item): the item replaces the one
\* stored under its own 'Configuration' value
put_item(tbl, item) ==
    Bind(Val(Val(item)[CONFIGURATION]), LAMBDA key :
         [k \in DOMAIN tbl \cup {key} |-> IF k = key THEN item ELSE tbl[k]])

\* {'Configuration': config_type, **values}
ItemOf(config_type, values) ==
    Merge(Dict(CONFIGURATION :> Str(config_type)), values)

\* what a call leaves: its result or the error it raised, the table, and the
\* items it put, in order
Outcome(r, tbl, written) == [ret |-> r, table |-> tbl, puts |-> written]

\* a call that has put the item
Written(r, o, item) == Outcome(r, put_item(o.table, item), Append(o.puts, item))

(***************************************************************************)
(* configuration_manager.py: the three operations that migrate             *)
(***************************************************************************)
JsonLegacy ==
    "{\"classes\": [{\"name\": \"A\", \"attributes\": [{\"name\": \"a\", \"confidence_threshold\": 0.5}]}]}"
JsonInvalid ==
    "{\"saveAsDefault\": true, \"classes\": [{\"name\": \"C\", \"attributes\": [{\"name\": \"a\", \"evaluation_method\": \"LLM\"}]}]}"
JsonBroken == "{\"classes\": ["

\* a legacy class with one simple attribute carrying the given extensions
StoreClass(name, x) ==
    Dict((LEGACY_NAME :> Str(name))
         @@ (LEGACY_ATTRIBUTES :> List(<<WithExtensions((LEGACY_NAME :> Str("a")), x)>>)))

\* config['classes'] = migrated, where the key is present
WithClasses(config, classes) ==
    IF Has(config, "classes") THEN Put(config, "classes", classes) ELSE config

\* config.get('classes') and is_legacy_format(config['classes'])
NeedsMigration(config) ==
    /\ Truthy(Get(config, "classes", Null))
    /\ is_legacy_format(Get(config, "classes", Null))

get_configuration_writes_read_item(tbl, config_type) ==
    \* the write-back stores the item as it was read
    Bind(get_item(tbl, config_type), LAMBDA config :
         IF ~Truthy(config) THEN Outcome(config, tbl, <<>>)
         ELSE Bind(migrate_if_legacy(Get(config, "classes", Null)), LAMBDA migrated :
              IF IsErr(migrated) THEN Outcome(migrated, tbl, <<>>)
              ELSE IF ~NeedsMigration(config) THEN Outcome(config, tbl, <<>>)
              ELSE Written(WithClasses(config, migrated), Outcome(Null, tbl, <<>>),
                           ItemOf(config_type,
                                  stringify_values(Without(config, CONFIGURATION))))))

\* get_configuration(config_type): the item read, its legacy classes migrated
\* and the migrated item written back under the same key
get_configuration(tbl, config_type) ==
    Bind(get_item(tbl, config_type), LAMBDA config :
         IF ~Truthy(config) THEN Outcome(config, tbl, <<>>)
         ELSE Bind(migrate_if_legacy(Get(config, "classes", Null)), LAMBDA migrated :
              IF IsErr(migrated) THEN Outcome(migrated, tbl, <<>>)
              ELSE IF ~NeedsMigration(config) THEN Outcome(config, tbl, <<>>)
              ELSE Bind(WithClasses(config, migrated), LAMBDA config1 :
                   Written(config1, Outcome(Null, tbl, <<>>),
                           ItemOf(config_type,
                                  stringify_values(Without(config1, CONFIGURATION)))))))

update_configuration_put_first(tbl, configuration_type, data) ==
    \* the item is put as given before its classes are migrated
    Bind(migrate_if_legacy(Get(data, "classes", Null)), LAMBDA migrated :
         IF IsErr(migrated)
         THEN Written(migrated, Outcome(Null, tbl, <<>>),
                      ItemOf(configuration_type, convert_floats_to_decimal(data)))
         ELSE Written(Null, Outcome(Null, tbl, <<>>),
                      ItemOf(configuration_type,
                             convert_floats_to_decimal(WithClasses(data, migrated)))))

\* update_configuration(configuration_type, data)
update_configuration(tbl, configuration_type, data) ==
    Bind(migrate_if_legacy(Get(data, "classes", Null)), LAMBDA migrated :
         IF IsErr(migrated) THEN Outcome(migrated, tbl, <<>>)
         ELSE Written(Null, Outcome(Null, tbl, <<>>),
                      ItemOf(configuration_type,
                             convert_floats_to_decimal(WithClasses(data, migrated)))))

\* the save_as_default branch: the stored Default read (and migrated), the
\* custom changes merged over it, Default written and Custom cleared
save_as_default(tbl, custom_config_obj) ==
    Bind(get_configuration(tbl, "Default"), LAMBDA default_item :
         IF IsErr(default_item.ret) THEN default_item
         ELSE Bind(IF Truthy(default_item.ret)
                   THEN remove_configuration_key(default_item.ret) ELSE EmptyDict,
              LAMBDA current_default :
              Written(Bool(TRUE),
                      Written(Null, default_item,
                              ItemOf("Default",
                                     stringify_values(deep_merge(current_default,
                                                                 custom_config_obj)))),
                      ItemOf("Custom", EmptyDict))))

\* handle_update_custom_configuration(custom_config); the update message sent
\* at the end of the Custom branch does not touch the table
handle_update_custom_configuration(tbl, custom_config) ==
    IF ~Truthy(custom_config)
    THEN Written(Bool(TRUE), Outcome(Null, tbl, <<>>), ItemOf("Custom", EmptyDict))
    ELSE Bind(IF custom_config.t # "str" THEN custom_config
              ELSE IF json_loads(Val(custom_config)).ok
                   THEN json_loads(Val(custom_config)).val
                   ELSE Err([exc |-> "JSONDecodeError", msg |-> "Expecting value"]),
              LAMBDA parsed :
         IF IsErr(parsed) THEN Outcome(Exception("Invalid configuration format"), tbl, <<>>)
         ELSE Bind(Without(parsed, SAVE_AS_DEFAULT), LAMBDA popped :
              Bind(migrate_if_legacy(Get(popped, "classes", Null)), LAMBDA migrated :
              IF IsErr(migrated) THEN Outcome(migrated, tbl, <<>>)
              ELSE IF Truthy(Get(parsed, SAVE_AS_DEFAULT, Bool(FALSE)))
                   THEN save_as_default(tbl, WithClasses(popped, migrated))
                   ELSE Written(Bool(TRUE), Outcome(Null, tbl, <<>>),
                                ItemOf("Custom",
                                       stringify_values(WithClasses(popped, migrated)))))))

(***************************************************************************)
(* The table under a sequence of operations: inputs and the calls          *)
(***************************************************************************)
ConfigTypes == {"Default", "Custom"}

\* classes as lists: legacy with a threshold held as text, legacy with a
\* float threshold, legacy with an evaluation method that is not valid, and a
\* JSON Schema document followed by a legacy class
LegacyText == List(<<StoreClass("A", <<Str("EXACT"), Str("0.5"), Absent>>)>>)
LegacyFloat == List(<<StoreClass("A", <<Absent, FloatV(5, 1), Absent>>)>>)
LegacyInvalid == List(<<StoreClass("C", <<Str("LLM"), Absent, Absent>>)>>)
SchemaThenLegacy ==
    List(<<SchemaDocumentA, StoreClass("B", <<Absent, Absent, Absent>>)>>)

\* what a key holds before the first call: a stringified item
StoredClasses == {Absent, LegacyText, LegacyInvalid, SchemaThenLegacy}

StoredItem(config_type, classes) ==
    MkDict((CONFIGURATION :> Str(config_type))
           @@ ("notes" :> Str("n"))
           @@ ("extraction" :> Dict(("model" :> Str("x")) @@ ("top_p" :> Str("0.1"))))
           @@ ("classes" :> classes))

InitialTables ==
    UNION {{tbl \in [present -> {StoredItem(k, c) : k \in ConfigTypes, c \in StoredClasses}] :
                \A k \in present : Val(tbl[k])[CONFIGURATION] = Str(k)}
              : present \in SUBSET ConfigTypes}

\* the data of an update: native values
ConfigData ==
    {Dict(("extraction" :> Dict(("model" :> Str("y")) @@ ("temperature" :> FloatV(1, 0))))),
     Dict(("classes" :> StoreClass("A", <<Absent, Absent, Absent>>)))}
    \cup {Dict(("classes" :> c)) : c \in {LegacyFloat, LegacyInvalid, SchemaThenLegacy}}

CustomConfigs ==
    {Null, EmptyDict, Str(JsonLegacy), Str(JsonInvalid), Str(JsonBroken)}
    \cup ConfigData
    \cup {Put(d, SAVE_AS_DEFAULT, Bool(TRUE)) : d \in ConfigData}

InitStore ==
    /\ pc = "start"
    /\ arg = Null
    /\ before = <<>>
    /\ ret = Null
    /\ table \in InitialTables
    /\ puts = <<>>
    /\ locals = <<>>

\* a call made and finished: what it was given, the table it found, what it
\* returned or raised, what it put, and the table it left
Finished(op, given, o) ==
    /\ pc' = op
    /\ arg' = given
    /\ before' = table
    /\ ret' = o.ret
    /\ puts' = o.puts
    /\ table' = o.table
    /\ UNCHANGED locals

CallGetConfiguration ==
    \E config_type \in ConfigTypes :
        Finished("get_configuration", [config_type |-> config_type],
                 get_configuration(table, config_type))

CallUpdateConfiguration ==
    \E configuration_type \in ConfigTypes, data \in ConfigData :
        Finished("update_configuration",
                 [config_type |-> configuration_type, data |-> data],
                 update_configuration(table, configuration_type, data))

CallHandleUpdateCustomConfiguration ==
    \E custom_config \in CustomConfigs :
        Finished("handle_update_custom_configuration", [data |-> custom_config],
                 handle_update_custom_configuration(table, custom_config))

NextStore ==
    \/ CallGetConfiguration
    \/ CallUpdateConfiguration
    \/ CallHandleUpdateCustomConfiguration

SpecStore == InitStore /\ [][NextStore]_vars

\* the classes of a stored item or of the data given, None where there are none
ClassesOf(config) == IF config.t = "dict" THEN Get(config, "classes", Null) ELSE Null

\* the custom configuration of the finished call as an object, None where it
\* is empty or not JSON
CustomConfigObj ==
    IF ~Truthy(arg.data) THEN Null
    ELSE IF arg.data.t # "str" THEN arg.data
    ELSE IF json_loads(Val(arg.data)).ok THEN json_loads(Val(arg.data)).val
    ELSE Null

\* the error raised by the migration made in the finished call, None where no
\* migration was made or it succeeded
MigrationError ==
    CASE pc = "get_configuration" ->
            migrate_if_legacy(ClassesOf(get_item(before, arg.config_type)))
      [] pc = "update_configuration" -> migrate_if_legacy(ClassesOf(arg.data))
      [] pc = "handle_update_custom_configuration" ->
            IF IsErr(migrate_if_legacy(ClassesOf(CustomConfigObj)))
            THEN migrate_if_legacy(ClassesOf(CustomConfigObj))
            ELSE IF Truthy(CustomConfigObj)
                    /\ Truthy(Get(CustomConfigObj, SAVE_AS_DEFAULT, Bool(FALSE)))
                 THEN migrate_if_legacy(ClassesOf(get_item(before, "Default")))
                 ELSE Null
      [] OTHER -> Null

\* C24: when migrating the classes raises in get_configuration,
\* update_configuration or handle_update_custom_configuration, the call puts
\* no item, the table is as it was before the call, and the caller receives
\* the error the migration raised.
C24_NoPersistenceOnFailure ==
    IsErr(MigrationError) =>
        /\ puts = <<>>
        /\ table = before
        /\ ret = MigrationError

\* saveAsDefault on a valid custom configuration while the stored Default
\* holds classes that do not migrate
C24_Witness ==
    /\ pc = "handle_update_custom_configuration"
    /\ arg.data.t = "dict" /\ Has(arg.data, SAVE_AS_DEFAULT)
    /\ ClassesOf(arg.data) = LegacyFloat
    /\ ClassesOf(get_item(before, "Default")) = LegacyInvalid
    /\ "Custom" \in DOMAIN before
    /\ ret = ValueError("Invalid evaluation_method")
    /\ puts = <<>> /\ table = before

C24_WitnessGet ==
    /\ pc = "get_configuration"
    /\ ClassesOf(get_item(before, arg.config_type)) = LegacyInvalid
    /\ IsErr(ret) /\ puts = <<>> /\ table = before

C24_WitnessUpdate ==
    /\ pc = "update_configuration"
    /\ ClassesOf(arg.data) = LegacyInvalid
    /\ arg.config_type \in DOMAIN before
    /\ IsErr(ret) /\ puts = <<>> /\ table = before

C24_WitnessJson ==
    /\ pc = "handle_update_custom_configuration"
    /\ arg.data = Str(JsonInvalid)
    /\ IsErr(ret) /\ puts = <<>> /\ table = before

\* the classes written by a put are a list that is_legacy_format calls legacy
WritesLegacy(item) ==
    /\ ClassesOf(item).t = "list"
    /\ is_legacy_format(ClassesOf(item))

\* the key holds an item that is_legacy_format does not call legacy
NonLegacyAt(tbl, k) == k \in DOMAIN tbl /\ ~is_legacy_format(ClassesOf(tbl[k]))

\* C29: no put of get_configuration, update_configuration or
\* handle_update_custom_configuration (saveAsDefault included) writes an item
\* whose classes are a list classified legacy, and no call turns a key that
\* holds a non-legacy item into one that holds a legacy item.
C29_NeverWritesLegacy ==
    /\ [](\A i \in DOMAIN puts : ~WritesLegacy(puts[i]))
    /\ [][\A k \in ConfigTypes : NonLegacyAt(table, k) => NonLegacyAt(table', k)]_vars

\* saveAsDefault with legacy custom classes over a stored legacy Default: the
\* read writes Default back, the merge writes it again, Custom is cleared
C29_Witness ==
    /\ pc = "handle_update_custom_configuration"
    /\ Len(puts) = 3
    /\ WritesLegacy(get_item(before, "Default"))
    /\ is_legacy_format(ClassesOf(CustomConfigObj))
    /\ \A i \in 1..2 : ClassesOf(puts[i]).t = "list" /\ Len(Val(ClassesOf(puts[i]))) = 1
    /\ NonLegacyAt(table, "Default")

C29_WitnessUpdate ==
    /\ pc = "update_configuration"
    /\ ClassesOf(arg.data) = LegacyFloat
    /\ Len(puts) = 1
    /\ ClassesOf(puts[1]).t = "list"
    /\ NonLegacyAt(before, arg.config_type)

C29_WitnessGet ==
    /\ pc = "get_configuration"
    /\ WritesLegacy(get_item(before, arg.config_type))
    /\ Len(puts) = 1
    /\ ClassesOf(puts[1]).t = "list"

(***************************************************************************)
(* get_configuration called by several readers at once on one key: each    *)
(* reader goes through get_item, the migration of its own copy, put_item   *)
(* and the return, and the table calls of the readers interleave           *)
(***************************************************************************)
Readers == {"r1", "r2", "r3"}

\* stored classes that migrate: a threshold held as text, no extensions, and
\* two classes
ValidStoredClasses ==
    {LegacyText,
     List(<<StoreClass("B", <<Absent, Absent, Absent>>)>>),
     List(<<StoreClass("B", <<Str("FUZZY"), Absent, Str("p")>>),
            StoreClass("A", <<Absent, Str("1"), Absent>>)>>)}

InitReaders ==
    /\ pc = "readers"
    /\ arg \in ConfigTypes
    /\ \E classes \in ValidStoredClasses : table = (arg :> StoredItem(arg, classes))
    /\ before = table
    /\ ret = [r \in Readers \cup {"later"} |-> Absent]
    /\ puts = <<>>
    /\ locals = [r \in Readers |-> [at |-> "get_item", config |-> Null]]

\* the reader moves on with its own config
Goes(r, position, config) ==
    locals' = [locals EXCEPT ![r] = [at |-> position, config |-> config]]

\* lines 46-56: the item read and, where its classes are legacy, migrated in
\* the reader's own copy; a migration that raises ends the call
ReaderGetItem(r) ==
    /\ pc = "readers"
    /\ locals[r].at = "get_item"
    /\ Bind(get_item(table, arg), LAMBDA config :
            IF Truthy(config) /\ NeedsMigration(config)
            THEN Bind(migrate_legacy_to_schema(ClassesOf(config)), LAMBDA migrated :
                 IF IsErr(migrated)
                 THEN Goes(r, "done", config) /\ ret' = [ret EXCEPT ![r] = migrated]
                 ELSE Goes(r, "put_item", WithClasses(config, migrated)) /\ UNCHANGED ret)
            ELSE Goes(r, "return", config) /\ UNCHANGED ret)
    /\ UNCHANGED <<pc, arg, before, table, puts>>

\* lines 59-69: the migrated item stringified and written back
ReaderPutItem(r) ==
    /\ pc = "readers"
    /\ locals[r].at = "put_item"
    /\ Bind(ItemOf(arg, stringify_values(Without(locals[r].config, CONFIGURATION))),
            LAMBDA item_to_save :
            /\ table' = put_item(table, item_to_save)
            /\ puts' = Append(puts, item_to_save))
    /\ Goes(r, "return", locals[r].config)
    /\ UNCHANGED <<pc, arg, before, ret>>

\* line 74: return config
ReaderReturn(r) ==
    /\ pc = "readers"
    /\ locals[r].at = "return"
    /\ ret' = [ret EXCEPT ![r] = locals[r].config]
    /\ Goes(r, "done", locals[r].config)
    /\ UNCHANGED <<pc, arg, before, table, puts>>

\* one more get_configuration on the key once every reader has finished:
\* before is the table it finds and puts what it alone writes
LaterGetConfiguration ==
    /\ pc = "readers"
    /\ \A r \in Readers : locals[r].at = "done"
    /\ pc' = "later"
    /\ before' = table
    /\ Bind(get_configuration(table, arg), LAMBDA o :
            /\ ret' = [ret EXCEPT !["later"] = o.ret]
            /\ table' = o.table
            /\ puts' = o.puts)
    /\ UNCHANGED <<arg, locals>>

NextReaders ==
    \/ \E r \in Readers : ReaderGetItem(r)
    \/ \E r \in Readers : ReaderPutItem(r)
    \/ \E r \in Readers : ReaderReturn(r)
    \/ LaterGetConfiguration

SpecReaders == InitReaders /\ [][NextReaders]_vars

\* the readers that have returned
Returned == {r \in Readers : locals[r].at = "done"}

\* every write-back stores the same item
SameWriteBacks == \A i, j \in DOMAIN puts : puts[i] = puts[j]

\* once all readers are done the stored item is non-legacy
SettledNonLegacy == Returned = Readers => NonLegacyAt(table, arg)

\* the later call finds nothing to migrate and writes nothing
LaterCallReadsOnly ==
    pc = "later" =>
        /\ ~NeedsMigration(get_item(before, arg))
        /\ puts = <<>>
        /\ table = before

\* C30: concurrent readers of one key holding a valid legacy list all return
\* the same migrated classes, all write back the same item, leave a
\* non-legacy item once they are done, and a later get_configuration neither
\* migrates nor writes.
C30_ReadersConverge ==
    /\ \A r1, r2 \in Returned : ClassesOf(ret[r1]) = ClassesOf(ret[r2])
    /\ pc = "readers" => SameWriteBacks
    /\ SettledNonLegacy
    /\ LaterCallReadsOnly

\* what holds of the readers apart from the returned values
C30_StoreConverges ==
    /\ pc = "readers" => SameWriteBacks
    /\ SettledNonLegacy
    /\ LaterCallReadsOnly

\* two readers done, one that migrated and one that read the written item
C30_Diverged ==
    /\ pc = "readers"
    /\ \E r1, r2 \in Returned :
          /\ ClassesOf(ret[r1]) = migrate_legacy_to_schema(ClassesOf(before[arg]))
          /\ ClassesOf(ret[r2]) = stringify_values(ClassesOf(ret[r1]))
          /\ ClassesOf(ret[r1]) # ClassesOf(ret[r2])

(***************************************************************************)
(* migrate_legacy_to_schema called by several callers at once: each call   *)
(* has its own migrated_classes, goes through its loop one class at a time *)
(* and then assembles, and the steps of the callers interleave             *)
(***************************************************************************)
Callers == {"c1", "c2"}

ClassWithExamples ==
    Dict((LEGACY_NAME :> Str("B")) @@ (LEGACY_ATTRIBUTES :> EmptyList)
         @@ (LEGACY_EXAMPLES :> List(<<ExamplePairs>>)))

ConcurrentInputs ==
    {EmptyList,
     LegacyText,
     LegacyFloat,
     LegacyInvalid,
     List(<<ClassWithExamples, Val(LegacyText)[1]>>),
     List(<<Val(LegacyText)[1], ClassWithExamples>>),
     List(<<Val(LegacyFloat)[1], Val(LegacyInvalid)[1]>>),
     List(<<ClassWithExamples, ClassWithExamples>>)}

append_migrated_shared(frames, c, migrated_class) ==
    \* migrated_classes is one list of the module, appended to by every call
    [k \in DOMAIN frames |->
        [frames[k] EXCEPT !.migrated_classes = Append(@, migrated_class),
                          !.i = IF k = c THEN @ + 1 ELSE @]]

\* migrated_classes.append(migrated_class) in the frame of call c, whose loop
\* moves on to its next class
append_migrated(frames, c, migrated_class) ==
    [frames EXCEPT ![c] = [@ EXCEPT !.migrated_classes = Append(@, migrated_class),
                                    !.i = @ + 1]]

\* migrated_classes = [] and the loop at its first class
Frame(legacy_classes) ==
    [at |-> "loop", legacy_classes |-> Iter(legacy_classes), i |-> 1,
     migrated_classes |-> <<>>]

InitConcurrent ==
    /\ pc = "concurrent"
    /\ arg \in [Callers -> ConcurrentInputs]
    /\ before = arg
    /\ ret = [c \in Callers |-> Absent]
    /\ locals = [c \in Callers |-> Frame(arg[c])]
    /\ table = <<>>
    /\ puts = <<>>

\* one pass of the loop over legacy_classes in call c; a raise ends the call
MigrateNextClass(c) ==
    /\ locals[c].at = "loop"
    /\ locals[c].i <= Len(locals[c].legacy_classes)
    /\ Bind(migrate_class(locals[c].legacy_classes[locals[c].i]), LAMBDA migrated_class :
            IF IsErr(migrated_class)
            THEN /\ locals' = [locals EXCEPT ![c].at = "done"]
                 /\ ret' = [ret EXCEPT ![c] = migrated_class]
            ELSE /\ locals' = append_migrated(locals, c, migrated_class)
                 /\ UNCHANGED ret)
    /\ UNCHANGED <<pc, arg, before, table, puts>>

\* result = _convert_classes_to_json_schema(migrated_classes); return result
AssembleAndReturn(c) ==
    /\ locals[c].at = "loop"
    /\ locals[c].i > Len(locals[c].legacy_classes)
    /\ ret' = [ret EXCEPT
                 ![c] = convert_classes_to_json_schema(locals[c].migrated_classes).result]
    /\ locals' = [locals EXCEPT ![c].at = "done"]
    /\ UNCHANGED <<pc, arg, before, table, puts>>

NextConcurrent ==
    \/ \E c \in Callers : MigrateNextClass(c)
    \/ \E c \in Callers : AssembleAndReturn(c)

SpecConcurrent == InitConcurrent /\ [][NextConcurrent]_vars

\* C25: whatever the interleaving of concurrent migrate_legacy_to_schema
\* calls, a finished call has returned or raised what the call gives when it
\* runs alone on its input, and two finished calls on equal inputs have equal
\* outcomes.
C25_NoStateAcrossCalls ==
    /\ \A c \in Callers :
          locals[c].at = "done" => ret[c] = migrate_legacy_to_schema(arg[c])
    /\ \A c1, c2 \in Callers :
          locals[c1].at = "done" /\ locals[c2].at = "done" /\ arg[c1] = arg[c2]
              => ret[c1] = ret[c2]

\* both calls done on two-class inputs, the second call having started its
\* loop while the first was between its two classes
C25_Witness ==
    /\ \A c \in Callers : locals[c].at = "done" /\ Len(Val(arg[c])) = 2 /\ ~IsErr(ret[c])
    /\ arg["c1"] # arg["c2"]
    /\ Len(Val(ret["c1"])) = 2 /\ Len(Val(ret["c2"])) = 2

\* one call in the middle of its loop when the other returns
C25_WitnessInterleaved ==
    /\ locals["c1"].at = "loop" /\ locals["c1"].i = 2 /\ Len(locals["c1"].legacy_classes) = 2
    /\ locals["c2"].at = "done" /\ arg["c2"] = arg["c1"] /\ ~IsErr(ret["c2"])

\* equal inputs, both raised
C25_WitnessRaised ==
    /\ \A c \in Callers : locals[c].at = "done" /\ IsErr(ret[c])
    /\ arg["c1"] = arg["c2"] /\ Len(Val(arg["c1"])) = 2
====
